---- MODULE Spec2Model ----
(***************************************************************************)
(* Batch job lifecycle of services/batchJobService.js (the second unit of  *)
(* src/services/fileUploadService.js): the in-memory job store, and the    *)
(* three entry points submitBatchJob, getBatchJobStatus, getBatchJobResult.*)
(* Every provider HTTP call is a suspension point: the code before the     *)
(* first await of each async callback runs inside the action that starts   *)
(* the call, the code after an await runs in the action that delivers the  *)
(* provider's response.  The isFileUpload branches of the status and the   *)
(* result entry point (lines 355-378, 452-484) never change a job's status;*)
(* they are modelled on their own, with the upload route's registration of *)
(* an OpenAI batch, in SpecUpload.  SpecFunctions applies the formatters,  *)
(* the parsers and the browser's status mapping to enumerated arguments.   *)
(***************************************************************************)
EXTENDS Integers, Sequences, FiniteSets, TLC

\* ------------------------------------------------------------------ bounds
MaxJobs == 2
MaxCalls == 3
MaxTime == 1
MaxUploadCalls == 1

\* ------------------------------------------------------------------ values
Null == "null"
NullResult == << >>

Models == {"gemini", "claude", "gpt"}
\* the (method, prompts) pairs a submission is tried with
SubmitInputs == {<<"text_input", << >>>>, <<"text_input", <<"a", "b">>>>, <<"file_upload", << >>>>}
JobIds == 1..MaxJobs

\* error.message of a failed provider request
NetworkErrors == {"Network Error"}

VARIABLES
  jobs,              \* the job store: internal job id -> job record
  nextInternalJobId, \* the id counter
  now,               \* the wall clock read by new Date()
  GOOGLE_API_KEY,    \* TRUE when the key is configured
  ANTHROPIC_API_KEY, \* TRUE when the key is configured
  calls,             \* the calls started, in start order; Done once settled
  lastReturned,      \* what the call that settled in the last step gave its caller
  lastResponse,      \* the provider answer delivered in the last step
  posts,             \* job id -> batch-creation requests sent
  attempts,          \* job id -> times the creation step was entered
  statusGets,        \* job id -> provider requests sent by getBatchJobStatus
  resultGets,        \* job id -> provider requests sent by getBatchJobResult
  terminalWrites,    \* job id -> status responses that moved the job into a terminal status
  pure,              \* a formatter or parser call on its own: the function, its arguments, its value
  chat               \* the chat route: the history containers, the /api/submit requests, their model calls and streams

vars == <<jobs, nextInternalJobId, now, GOOGLE_API_KEY, ANTHROPIC_API_KEY, calls,
          lastReturned, lastResponse, posts, attempts, statusGets, resultGets, terminalWrites,
          pure, chat>>

IsTerminal(status) == status = "COMPLETED" \/ status = "FAILED"

\* the ids in the store
Known == DOMAIN jobs

Zero == [j \in JobIds |-> 0]

Bump(counter, ids) == [j \in JobIds |-> IF j \in ids THEN counter[j] + 1 ELSE counter[j]]

\* a template string `${prefix}${detail}`
Str(prefix, detail) == <<prefix, detail>>

\* lastReturned holds the outcome of the call that settled in the last step, if any
NoCall == [op |-> "none", outcome |-> "none", ids |-> << >>, ret |-> << >>, pending |-> << >>]

NoResponse == [call |-> 0, job |-> 0]

Delivered(c, j, response) == [call |-> c, job |-> j, response |-> response]

\* no formatter or parser call is looked at on its own
NoPure == [fn |-> "none", done |-> TRUE]

\* the chat route as it is after start-up: empty containers, no request
NoChat == [historyContainers |-> [m \in {"gemini", "gpt"} |-> << >>],
           requests |-> << >>, llmCalls |-> << >>, streams |-> << >>]

Init ==
  /\ chat = NoChat
  /\ jobs = << >>
  /\ nextInternalJobId = 1
  /\ now = 0
  /\ GOOGLE_API_KEY \in BOOLEAN
  /\ ANTHROPIC_API_KEY \in BOOLEAN
  /\ calls = << >>
  /\ lastReturned = NoCall
  /\ lastResponse = NoResponse
  /\ posts = Zero
  /\ attempts = Zero
  /\ statusGets = Zero
  /\ resultGets = Zero
  /\ terminalWrites = Zero
  /\ pure = NoPure

\* ------------------------------------------------------------ the clock
Tick ==
  /\ now < MaxTime
  /\ now' = now + 1
  /\ lastReturned' = NoCall
  /\ lastResponse' = NoResponse
  /\ UNCHANGED <<jobs, nextInternalJobId, pure, chat, GOOGLE_API_KEY, ANTHROPIC_API_KEY, calls,
                 posts, attempts, statusGets, resultGets, terminalWrites>>

\* a call that has settled keeps no state
Done == [op |-> "done", pending |-> << >>]

\* a call settles in the step that settles its last callback
Settled(call) == DOMAIN call.pending = {}

\* the callbacks of a call that wait at an await: job id -> the await they wait at
Waiting(ids, step) == [j \in ids |-> step]

Without(pending, j) == [k \in DOMAIN pending \ {j} |-> pending[k]]

Settle(cs, c) == IF Settled(cs[c]) THEN [cs EXCEPT ![c] = Done] ELSE cs

\* what a call that settled gave its caller, with the arguments it was made with
\* where the call record keeps them
Returned(call) == [op |-> call.op, outcome |-> "returned", ids |-> call.ids, ret |-> call.ret,
                   pending |-> << >>,
                   args |-> IF "args" \in DOMAIN call THEN call.args ELSE << >>]

Threw(op, message) == [op |-> op, outcome |-> "threw", ids |-> << >>, ret |-> << >>,
                       pending |-> << >>, message |-> message]

Outcome(call) == IF Settled(call) THEN Returned(call) ELSE NoCall

\* a write that goes to every record of the store
Written_Everywhere(store, j, job) == [k \in DOMAIN store |-> job]

\* a callback writes the record it holds: `jobs[internalJobId]` of lines 308-332, `job`
\* of lines 381 and 487
Written(store, j, job) == [store EXCEPT ![j] = job]

\* ------------------------------------------------------- submitBatchJob
\* a validation that forgets the prompts
SubmitValidationError_IgnoresPrompts(method, prompts, models) ==
  IF Len(models) = 0 THEN "At least one LLM must be selected." ELSE Null

SubmitValidationError(method, prompts, models) ==
  IF Len(models) = 0 THEN "At least one LLM must be selected."
  ELSE IF method = "text_input" /\ Len(prompts) = 0
       THEN "Prompts are required for text input method."
       ELSE Null

\* a counter that is read and not advanced
generateInternalJobId_NoIncrement(offset) == nextInternalJobId

\* `job-${nextInternalJobId++}`, for the call made after `offset` others in the same step
generateInternalJobId(offset) == nextInternalJobId + offset

\* a record that is stored as running
NewJob_Running(modelId, method, prompts) ==
  [model |-> modelId, method |-> method, prompts |-> prompts, status |-> "RUNNING",
   fullName |-> Null, llmJobId |-> Null, result |-> NullResult, lastChecked |-> now, successData |-> Null, usageData |-> Null]

NewJob(modelId, method, prompts) ==
  [model |-> modelId, method |-> method, prompts |-> prompts, status |-> "PENDING",
   fullName |-> Null, llmJobId |-> Null, result |-> NullResult, lastChecked |-> now, successData |-> Null, usageData |-> Null]

\* what the creation step throws before it reaches its await, or Null
SubmitSyncError(modelId) ==
  IF modelId = "gemini"
  THEN IF ~GOOGLE_API_KEY THEN "Gemini API key not configured." ELSE Null
  ELSE IF modelId = "claude"
       THEN IF ~ANTHROPIC_API_KEY THEN "Anthropic API key not configured." ELSE Null
       ELSE "Model not supported for batch text input."

\* a catch block that records the message and leaves the status
SubmitCatch_KeepsPending(job, message) ==
  [job EXCEPT !.result = Str("Failed to submit job: ", message)]

SubmitCatch(job, message) ==
  [job EXCEPT !.status = "FAILED", !.result = Str("Failed to submit job: ", message)]

SubmitFailedEntry(j, message) == [internalJobId |-> j, status |-> "FAILED", message |-> message]

\* the name the provider gives the batch it accepted (lines 306, 321)
ProviderJobName(modelId) == IF modelId = "gemini" THEN "batches/abc" ELSE "msgbatch_abc"

\* llmJobname.split('/').pop()
LastSegment(name) == IF name = "batches/abc" THEN "abc" ELSE name

SubmitAccepted(job, llmJobname) ==
  [job EXCEPT !.fullName = llmJobname, !.llmJobId = LastSegment(llmJobname)]

SubmitAcceptedEntry(j, llmJobId) == [internalJobId |-> j, llmJobId |-> llmJobId, status |-> "PENDING"]

\* a failure that is not recorded in the map
SubmitRecord_DropsFailures(submittedJobs, modelId, entry) ==
  IF entry.status = "FAILED" THEN submittedJobs
  ELSE [m \in DOMAIN submittedJobs \cup {modelId} |-> IF m = modelId THEN entry ELSE submittedJobs[m]]

\* submittedJobs[modelId] = entry
SubmitRecord(submittedJobs, modelId, entry) ==
  [m \in DOMAIN submittedJobs \cup {modelId} |-> IF m = modelId THEN entry ELSE submittedJobs[m]]

\* submittedJobs after the first i callbacks ran up to their await: the ones that
\* threw before it have recorded their failure
RECURSIVE SubmittedBeforeAwait(_, _, _)
SubmittedBeforeAwait(models, ids, i) ==
  IF i = 0 THEN << >>
  ELSE LET before == SubmittedBeforeAwait(models, ids, i - 1)
           message == SubmitSyncError(models[i])
       IN  IF message # Null
           THEN SubmitRecord(before, models[i], SubmitFailedEntry(ids[i], message))
           ELSE before

submitBatchJob(method, prompts, models) ==
  LET err == SubmitValidationError(method, prompts, models)
      c == Len(calls) + 1
  IN
  /\ Len(calls) < MaxCalls
  /\ IF err # Null
     THEN /\ lastReturned' = Threw("submit", err)
          /\ calls' = calls
          /\ UNCHANGED <<jobs, nextInternalJobId, posts, attempts>>
     ELSE LET n == Len(models)
              ids == [i \in 1..n |-> generateInternalJobId(i - 1)]
              modelOf == [j \in {ids[i] : i \in 1..n} |-> models[j - nextInternalJobId + 1]]
              created == DOMAIN modelOf
              sent == {j \in created : SubmitSyncError(modelOf[j]) = Null}
              ret == SubmittedBeforeAwait(models, ids, n)
              call == [op |-> "submit", ids |-> ids, ret |-> ret, pending |-> Waiting(sent, "create"),
                       args |-> [method |-> method, prompts |-> prompts, models |-> models]]
          IN
          /\ nextInternalJobId + n - 1 <= MaxJobs
          /\ jobs' = [j \in Known \cup created |->
                        IF j \in Known THEN jobs[j]
                        ELSE IF j \in sent THEN NewJob(modelOf[j], method, prompts)
                             ELSE SubmitCatch(NewJob(modelOf[j], method, prompts),
                                              SubmitSyncError(modelOf[j]))]
          /\ nextInternalJobId' = nextInternalJobId + n
          /\ posts' = Bump(posts, sent)
          /\ attempts' = Bump(attempts, created)
          /\ calls' = Settle(Append(calls, call), c)
          /\ lastReturned' = Outcome(call)
  /\ lastResponse' = NoResponse
  /\ UNCHANGED <<now, pure, chat, GOOGLE_API_KEY, ANTHROPIC_API_KEY, statusGets, resultGets, terminalWrites>>

\* the provider's answer to a batch-creation request: accepted with a job name,
\* accepted with a body that carries no name, or an error
CreateOutcomes == {"accepted", "no-name"} \cup NetworkErrors

CreateErrorMessage(outcome) ==
  IF outcome = "no-name" THEN "Cannot read properties of undefined (reading 'split')"
  ELSE outcome

\* the continuation of a creation callback after its axios.post
SubmitResponse(c, j, outcome) ==
  LET modelId == jobs[j].model
      ok == outcome = "accepted"
      llmJobname == ProviderJobName(modelId)
      entry == IF ok THEN SubmitAcceptedEntry(j, LastSegment(llmJobname))
               ELSE SubmitFailedEntry(j, CreateErrorMessage(outcome))
      call == [calls[c] EXCEPT !.ret = SubmitRecord(@, modelId, entry), !.pending = Without(@, j)]
  IN
  /\ jobs' = Written(jobs, j, IF ok THEN SubmitAccepted(jobs[j], llmJobname)
                               ELSE SubmitCatch(jobs[j], CreateErrorMessage(outcome)))
  /\ calls' = Settle([calls EXCEPT ![c] = call], c)
  /\ lastReturned' = Outcome(call)
  /\ lastResponse' = Delivered(c, j, [error |-> IF ok THEN Null ELSE CreateErrorMessage(outcome),
                                      data |-> outcome])
  /\ UNCHANGED <<nextInternalJobId, now, pure, chat, GOOGLE_API_KEY, ANTHROPIC_API_KEY, posts, attempts,
                 statusGets, resultGets, terminalWrites>>

\* ---------------------------------------------------- getBatchJobStatus
IdsValidationError(internalJobIds) ==
  IF Len(internalJobIds) = 0 THEN "No job IDs provided." ELSE Null

NotFoundEntry == [status |-> "NOT_FOUND", message |-> "Job not found."]

StatusEntry(job) == [status |-> job.status, result |-> job.result, lastChecked |-> job.lastChecked]

\* a check that lets FAILED jobs through
StatusIsCached_OnlyCompleted(job) == job.status = "COMPLETED"

\* the check that ends a status callback before its try block
StatusIsCached(job) == job.status = "COMPLETED" \/ job.status = "FAILED"

\* a callback that asks the provider without looking at llmJobId
StatusSyncError_NoIdCheck(job) == Null

\* what a status callback throws before it reaches its await, or Null
StatusSyncError(job) ==
  IF job.model = "gemini" /\ job.llmJobId = Null THEN "Gemini job has no LLM job ID."
  ELSE IF job.model = "claude" /\ job.llmJobId = Null THEN "Claude job has no LLM job ID."
       ELSE Null

\* a status callback awaits a provider response
StatusAwaits(job) == job.model \in {"gemini", "claude"} /\ StatusSyncError(job) = Null

\* a catch block that records the message and leaves the status
StatusCatch_KeepsStatus(job, message) ==
  [job EXCEPT !.result = Str("Failed to check status: ", message)]

StatusCatch(job, message) ==
  [job EXCEPT !.status = "FAILED", !.result = Str("Failed to check status: ", message)]

\* the operation resource Gemini answers with
GeminiLros == [done : BOOLEAN, error : BOOLEAN]

\* the batch resource Claude answers with
ClaudeLros == [ended_at : BOOLEAN, processing_status : {"in_progress", "ended"},
               results_url : {Null, "results_url"}]

\* a mapping that stores currentLLMStatus of line 397 whatever the answer is
StatusGemini_StoresProviderStatus(job, lroInfo) ==
  IF lroInfo.done
  THEN IF lroInfo.error
       THEN [job EXCEPT !.status = "FAILED", !.result = Str("Gemini job failed: ", "error.message")]
       ELSE [job EXCEPT !.status = "SUCCEEDED",
                        !.result = Str("Gemini batch job SUCCEEDED. Results are available.", LastSegment(job.llmJobId)),
                        !.successData = "lroInfo"]
  ELSE [job EXCEPT !.status = IF lroInfo.error THEN "FAILED" ELSE "RUNNING"]

StatusGemini(job, lroInfo) ==
  IF lroInfo.done
  THEN IF lroInfo.error
       THEN [job EXCEPT !.status = "FAILED", !.result = Str("Gemini job failed: ", "error.message")]
       ELSE [job EXCEPT !.status = "COMPLETED",
                        !.result = Str("Gemini batch job SUCCEEDED. Results are available.", LastSegment(job.llmJobId)),
                        !.successData = "lroInfo"]
  ELSE [job EXCEPT !.status = IF lroInfo.error THEN "FAILED" ELSE "RUNNING"]

ClaudeEnded(lroInfo) == lroInfo.ended_at /\ lroInfo.processing_status = "ended"

\* a mapping that looks at ended_at alone
StatusClaude_EndedAtOnly(job, lroInfo) ==
  IF lroInfo.ended_at
  THEN [job EXCEPT !.result = Str("Claude batch job status.", LastSegment(job.llmJobId)),
                   !.successData = lroInfo.results_url,
                   !.status = "COMPLETED"]
  ELSE [job EXCEPT !.status = "RUNNING",
                   !.result = Str("Model is still running, please check later.", job.model)]

StatusClaude(job, lroInfo) ==
  IF ClaudeEnded(lroInfo)
  THEN [job EXCEPT !.result = Str("Claude batch job status.", LastSegment(job.llmJobId)),
                   !.successData = lroInfo.results_url,
                   !.status = "COMPLETED"]
  ELSE [job EXCEPT !.status = "RUNNING",
                   !.result = Str("Model is still running, please check later.", job.model)]

\* the part of a status callback that runs when the call starts, for a job that
\* is in the store, is not cached and does not reach an await
StatusNoAwait(job) ==
  LET checked == IF StatusSyncError(job) # Null THEN StatusCatch(job, StatusSyncError(job)) ELSE job
  IN  [checked EXCEPT !.lastChecked = now]

\* a callback that fails on an id that is not in the store, and reports nothing
StatusReported_KnownOnly(asked, awaiting) == (asked \cap Known) \ awaiting

\* the ids whose callback writes its entry before the call reaches an await:
\* the unknown ones, the cached ones and the ones that stop at no await
StatusReported(asked, awaiting) == asked \ awaiting

getBatchJobStatus(ids) ==
  LET err == IdsValidationError(ids)
      c == Len(calls) + 1
      asked == {ids[i] : i \in 1..Len(ids)}
      cached == {j \in asked \cap Known : StatusIsCached(jobs[j])}
      awaiting == {j \in (asked \cap Known) \ cached : StatusAwaits(jobs[j])}
      written == ((asked \cap Known) \ cached) \ awaiting
      jobs1 == [j \in Known |-> IF j \in written THEN StatusNoAwait(jobs[j]) ELSE jobs[j]]
      ret == [j \in StatusReported(asked, awaiting) |->
                IF j \notin Known THEN NotFoundEntry ELSE StatusEntry(jobs1[j])]
      call == [op |-> "status", ids |-> ids, ret |-> ret, pending |-> Waiting(awaiting, "poll")]
  IN
  /\ Len(calls) < MaxCalls
  /\ IF err # Null
     THEN /\ lastReturned' = Threw("status", err)
          /\ calls' = calls
          /\ UNCHANGED <<jobs, statusGets>>
     ELSE /\ jobs' = jobs1
          /\ statusGets' = Bump(statusGets, awaiting)
          /\ calls' = Settle(Append(calls, call), c)
          /\ lastReturned' = Outcome(call)
  /\ lastResponse' = NoResponse
  /\ UNCHANGED <<nextInternalJobId, now, pure, chat, GOOGLE_API_KEY, ANTHROPIC_API_KEY, posts, attempts,
                 resultGets, terminalWrites>>

\* how an axios.get ends: the request throws error, or (error = Null) answers with data
Answers(datas) == [error : {Null}, data : datas] \cup
                  [error : NetworkErrors, data : {CHOOSE d \in datas : TRUE}]

StatusAnswers(job) == IF job.model = "gemini" THEN Answers(GeminiLros) ELSE Answers(ClaudeLros)

\* a continuation that does not stamp the job
StatusContinuation_NoTimestamp(job, response) ==
  IF response.error # Null THEN StatusCatch(job, response.error)
  ELSE IF job.model = "gemini" THEN StatusGemini(job, response.data)
       ELSE StatusClaude(job, response.data)

\* the continuation of a status callback after its axios.get
StatusContinuation(job, response) ==
  LET polled == IF response.error # Null THEN StatusCatch(job, response.error)
                ELSE IF job.model = "gemini" THEN StatusGemini(job, response.data)
                     ELSE StatusClaude(job, response.data)
  IN  [polled EXCEPT !.lastChecked = now]

StatusResponse(c, j, response) ==
  LET job == StatusContinuation(jobs[j], response)
      ret == [k \in DOMAIN calls[c].ret \cup {j} |->
                IF k = j THEN StatusEntry(job) ELSE calls[c].ret[k]]
      call == [calls[c] EXCEPT !.ret = ret, !.pending = Without(@, j)]
  IN
  /\ jobs' = Written(jobs, j, job)
  /\ terminalWrites' = IF IsTerminal(job.status) /\ job.status # jobs[j].status
                       THEN Bump(terminalWrites, {j}) ELSE terminalWrites
  /\ calls' = Settle([calls EXCEPT ![c] = call], c)
  /\ lastReturned' = Outcome(call)
  /\ lastResponse' = Delivered(c, j, response)
  /\ UNCHANGED <<nextInternalJobId, now, pure, chat, GOOGLE_API_KEY, ANTHROPIC_API_KEY, posts, attempts,
                 statusGets, resultGets>>

\* ---------------------------------------------------- getBatchJobResult
ResultEntry(job) == [status |-> job.status, result |-> job.result,
                     lastChecked |-> job.lastChecked, usageData |-> job.usageData]

\* what a result callback throws before it reaches its await, or Null
ResultSyncError(job) ==
  IF job.model = "gemini" /\ job.llmJobId = Null THEN "Gemini job has no LLM job ID."
  ELSE IF job.model = "claude" /\ job.llmJobId = Null THEN "Claude job has no LLM job ID."
       ELSE Null

ResultCatch(job, message) ==
  [job EXCEPT !.status = "FAILED", !.result = Str("Failed to check status: ", message)]

\* what parseGeminiInlineResponses and parseGeminiUsageData return for the payload the
\* store keeps, which the job lifecycle does not look into
GeminiRendered(lroInfo, isSingleBatchChat) ==
  Str("--- Request Key: ", IF isSingleBatchChat THEN "single" ELSE "each")

GeminiUsage(lroInfo, isSingleBatchChat) == "usageMetadata"

\* the await a result callback of a COMPLETED job stops at, or Null when it stops at none
ResultAwait(job) ==
  IF ResultSyncError(job) # Null THEN Null
  ELSE IF job.model = "gemini" THEN (IF job.successData # Null THEN Null ELSE "repoll")
       ELSE IF job.model = "claude" THEN (IF job.successData # Null THEN "download" ELSE "repoll")
            ELSE Null

\* a result callback of a COMPLETED job that stops at no await
ResultNoAwait(job, isSingleBatchChat) ==
  LET done ==
        IF ResultSyncError(job) # Null THEN ResultCatch(job, ResultSyncError(job))
        ELSE IF job.model = "gemini"
             THEN [job EXCEPT !.result = GeminiRendered(job.successData, isSingleBatchChat),
                              !.usageData = GeminiUsage(job.successData, isSingleBatchChat)]
             ELSE job
  IN  [done EXCEPT !.lastChecked = now]

\* a check that only skips FAILED jobs
ResultSkips_OnlyFailed(job) == job.status = "FAILED"

\* the check that ends a result callback before its try block, with no entry written
ResultSkips(job) == job.status # "COMPLETED"

getBatchJobResult(ids, isSingleBatchChat) ==
  LET err == IdsValidationError(ids)
      c == Len(calls) + 1
      asked == {ids[i] : i \in 1..Len(ids)}
      completed == {j \in asked \cap Known : ~ResultSkips(jobs[j])}
      awaiting == {j \in completed : ResultAwait(jobs[j]) # Null}
      written == completed \ awaiting
      jobs1 == [j \in Known |->
                  IF j \in written THEN ResultNoAwait(jobs[j], isSingleBatchChat) ELSE jobs[j]]
      ret == [j \in (asked \ Known) \cup written |->
                IF j \notin Known THEN NotFoundEntry ELSE ResultEntry(jobs1[j])]
      call == [op |-> "result", ids |-> ids, ret |-> ret,
               pending |-> [j \in awaiting |-> ResultAwait(jobs[j])],
               isSingleBatchChat |-> isSingleBatchChat,
               args |-> [isSingleBatchChat |-> isSingleBatchChat]]
  IN
  /\ Len(calls) < MaxCalls
  /\ IF err # Null
     THEN /\ lastReturned' = Threw("result", err)
          /\ calls' = calls
          /\ UNCHANGED <<jobs, resultGets>>
     ELSE /\ jobs' = jobs1
          /\ resultGets' = Bump(resultGets, awaiting)
          /\ calls' = Settle(Append(calls, call), c)
          /\ lastReturned' = Outcome(call)
  /\ lastResponse' = NoResponse
  /\ UNCHANGED <<nextInternalJobId, now, pure, chat, GOOGLE_API_KEY, ANTHROPIC_API_KEY, posts, attempts,
                 statusGets, terminalWrites>>

\* the operation resource Gemini answers a result re-read with
ResultGeminiLros == [done : BOOLEAN, error : BOOLEAN, state : {Null, "BATCH_STATE_RUNNING"}]

\* the body of a results download as axios hands it over: the JSONL text, or
\* the object axios parsed a one-line body into
Downloads == {"text", "object"}

\* getClaudeJobResult: the string it returns has a _USAGE_ part unless it caught an error
ClaudeResultHasUsage(response, isSingleBatchChat) ==
  /\ response.error = Null
  /\ (isSingleBatchChat \/ response.data = "text")

ClaudeRendered(isSingleBatchChat) ==
  Str("--- Request Key: ", IF isSingleBatchChat THEN "single" ELSE "each")

\* a catch block that leaves usage data behind
ClaudeParsed_HalfApplied(job, response, isSingleBatchChat) ==
  IF ClaudeResultHasUsage(response, isSingleBatchChat)
  THEN [job EXCEPT !.result = ClaudeRendered(isSingleBatchChat), !.usageData = "usage"]
  ELSE [ResultCatch(job, "\"undefined\" is not valid JSON") EXCEPT !.usageData = "usage"]

\* lines 520-522 and 528-530: result and usageData from the string of getClaudeJobResult
ClaudeParsed(job, response, isSingleBatchChat) ==
  IF ClaudeResultHasUsage(response, isSingleBatchChat)
  THEN [job EXCEPT !.result = ClaudeRendered(isSingleBatchChat), !.usageData = "usage"]
  ELSE ResultCatch(job, "\"undefined\" is not valid JSON")

ResultGeminiRepoll(job, lroInfo, isSingleBatchChat) ==
  IF lroInfo.done /\ ~lroInfo.error
  THEN ResultCatch(job, "Cannot read properties of null (reading 'response')")
  ELSE IF lroInfo.done /\ lroInfo.error
       THEN [job EXCEPT !.status = "FAILED", !.result = Str("Gemini job failed: ", "error.message")]
       ELSE LET state == IF lroInfo.state # Null THEN lroInfo.state ELSE "RUNNING"
            IN  [job EXCEPT !.status = state,
                            !.result = Str("Gemini job is not yet available: ", state)]

ResultClaudeNotEnded(job) ==
  [job EXCEPT !.status = "PENDING",
              !.result = Str("Model is still running, please check later.", job.model)]

ResultClaudeFresh(job, response, url, isSingleBatchChat) ==
  IF ClaudeResultHasUsage(response, isSingleBatchChat)
  THEN [ClaudeParsed(job, response, isSingleBatchChat) EXCEPT !.successData = url,
                                                              !.status = "COMPLETED"]
  ELSE ClaudeParsed(job, response, isSingleBatchChat)

\* a request for no URL throws inside getClaudeJobResult
NoUrl == [error |-> "Invalid URL", data |-> "text"]

\* the await a result callback stops at next, or Null when it runs to its end
ResultNextAwait(job, step, response) ==
  IF /\ step = "repoll" /\ job.model = "claude" /\ response.error = Null
     /\ ClaudeEnded(response.data) /\ response.data.results_url # Null
  THEN "redownload"
  ELSE Null

\* the continuation of a result callback after an await, when it runs to its end
ResultContinuation(job, step, response, isSingleBatchChat) ==
  LET done ==
        IF step = "download" THEN ClaudeParsed(job, response, isSingleBatchChat)
        ELSE IF step = "redownload"
             THEN ResultClaudeFresh(job, response, "results_url", isSingleBatchChat)
             ELSE IF response.error # Null THEN ResultCatch(job, response.error)
                  ELSE IF job.model = "gemini"
                       THEN ResultGeminiRepoll(job, response.data, isSingleBatchChat)
                       ELSE IF ClaudeEnded(response.data)
                            THEN ResultClaudeFresh(job, NoUrl, Null, isSingleBatchChat)
                            ELSE ResultClaudeNotEnded(job)
  IN  [done EXCEPT !.lastChecked = now]

ResultAnswers(job, step) ==
  IF step = "repoll"
  THEN IF job.model = "gemini" THEN Answers(ResultGeminiLros) ELSE Answers(ClaudeLros)
  ELSE Answers(Downloads)

ResultResponse(c, j, response) ==
  LET step == calls[c].pending[j]
      next == ResultNextAwait(jobs[j], step, response)
      job == ResultContinuation(jobs[j], step, response, calls[c].isSingleBatchChat)
      ret == [k \in DOMAIN calls[c].ret \cup {j} |->
                IF k = j THEN ResultEntry(job) ELSE calls[c].ret[k]]
      call == [calls[c] EXCEPT !.ret = ret, !.pending = Without(@, j)]
  IN
  /\ IF next # Null
     THEN /\ calls' = [calls EXCEPT ![c].pending[j] = next]
          /\ resultGets' = Bump(resultGets, {j})
          /\ lastReturned' = NoCall
          /\ UNCHANGED jobs
     ELSE /\ jobs' = Written(jobs, j, job)
          /\ calls' = Settle([calls EXCEPT ![c] = call], c)
          /\ lastReturned' = Outcome(call)
          /\ UNCHANGED resultGets
  /\ lastResponse' = Delivered(c, j, response)
  /\ UNCHANGED <<nextInternalJobId, now, pure, chat, GOOGLE_API_KEY, ANTHROPIC_API_KEY, posts, attempts,
                 statusGets, terminalWrites>>

\* ---------------------------------------------------------------- actions
Submit ==
  \E input \in SubmitInputs :
    \E n \in 0..MaxJobs : \E models \in [1..n -> Models] :
      submitBatchJob(input[1], input[2], models)

CreateResponse ==
  \E c \in DOMAIN calls :
    /\ calls[c].op = "submit"
    /\ \E j \in DOMAIN calls[c].pending : \E outcome \in CreateOutcomes : SubmitResponse(c, j, outcome)

\* the job id lists a status or result call is tried with: the ids of a set of
\* job ids, in ascending order
RECURSIVE Ascending(_)
Ascending(S) == IF S = {} THEN << >>
                ELSE LET m == CHOOSE x \in S : \A y \in S : x <= y
                     IN  <<m>> \o Ascending(S \ {m})

IdLists == {Ascending(S) : S \in SUBSET JobIds}

StatusCall == \E ids \in IdLists : getBatchJobStatus(ids)

PollResponse ==
  \E c \in DOMAIN calls :
    /\ calls[c].op = "status"
    /\ \E j \in DOMAIN calls[c].pending : \E response \in StatusAnswers(jobs[j]) : StatusResponse(c, j, response)

ResultCall == \E ids \in IdLists, isSingleBatchChat \in BOOLEAN : getBatchJobResult(ids, isSingleBatchChat)

FetchResponse ==
  \E c \in DOMAIN calls :
    /\ calls[c].op = "result"
    /\ \E j \in DOMAIN calls[c].pending :
         \E response \in ResultAnswers(jobs[j], calls[c].pending[j]) : ResultResponse(c, j, response)

Next ==
  \/ Submit
  \/ CreateResponse
  \/ StatusCall
  \/ PollResponse
  \/ ResultCall
  \/ FetchResponse

Spec == Init /\ [][Next]_vars

\* the same with a clock that advances
SpecClock == Init /\ [][Next \/ Tick]_vars

\* ------------------------------------------------------ the file-upload mode
\* The isFileUpload branches of getBatchJobStatus and getBatchJobResult (lines
\* 355-378, 452-484) and the registration of an uploaded OpenAI batch in the job
\* store (routes/batchRoutes.js, lines 92-94).  Each branch is one async function
\* that looks at internalJobIds[0] only; a provider request that throws is not
\* caught, so the call rejects.

\* the ids OpenAI gives the batches made from an uploaded file, numbered after the
\* internal job ids
OpenAIBatchIds == {MaxJobs + 1}

\* the record the upload route stores; the fields it leaves out read as undefined
UploadedJob(id) ==
  [model |-> "openai", method |-> "file_upload", prompts |-> << >>, status |-> "PENDING",
   fullName |-> Null, llmJobId |-> "batch_abc", result |-> NullResult, lastChecked |-> now,
   successData |-> Null, usageData |-> Null]

\* if (!jobs[id]) jobs[id] = {...}
UploadRegistered(store, id) ==
  IF id \in DOMAIN store THEN store
  ELSE [j \in DOMAIN store \cup {id} |-> IF j = id THEN UploadedJob(id) ELSE store[j]]

RegisterUpload ==
  \E id \in OpenAIBatchIds :
    /\ jobs' = UploadRegistered(jobs, id)
    /\ lastReturned' = NoCall
    /\ lastResponse' = NoResponse
    /\ UNCHANGED <<nextInternalJobId, now, pure, chat, GOOGLE_API_KEY, ANTHROPIC_API_KEY, calls, posts,
                   attempts, statusGets, resultGets, terminalWrites>>

UploadModels == {"gemini", "openai", "claude"}

\* a file-upload call that has settled
UploadDone == [op |-> "uploadDone", pending |-> << >>]

\* the file-upload calls started so far
UploadCalls == {c \in DOMAIN calls : calls[c].op \in {"uploadStatus", "uploadResult", "uploadDone"}}

\* the file-upload calls a behaviour can still start: MaxUploadCalls of them once
\* text-input jobs have been submitted, as many as MaxCalls allows before
UploadCallsLeft ==
  Cardinality(UploadCalls) < (IF nextInternalJobId = 1 THEN MaxCalls ELSE MaxUploadCalls)

\* the id lists a file-upload call is tried with
UploadIdLists == {<< >>} \cup {<<j>> : j \in {1} \cup OpenAIBatchIds}

\* what the file-upload branch of getBatchJobStatus throws before its await, or Null
UploadStatusSyncError(modelId) ==
  IF modelId \in {"gemini", "openai"} THEN Null
  ELSE "Model not supported for file upload batch status check."

\* getBatchJobStatus(internalJobIds, true, modelId) up to its await
getBatchJobStatusUpload(ids, modelId) ==
  LET err == IF IdsValidationError(ids) # Null THEN IdsValidationError(ids)
             ELSE UploadStatusSyncError(modelId)
      call == [op |-> "uploadStatus", ids |-> ids, ret |-> << >>,
               pending |-> Waiting({ids[1]}, "get"), modelId |-> modelId]
  IN
  /\ Len(calls) < MaxCalls
  /\ UploadCallsLeft
  /\ IF err # Null
     THEN /\ lastReturned' = Threw("uploadStatus", err)
          /\ calls' = calls
     ELSE /\ lastReturned' = NoCall
          /\ calls' = Append(calls, call)
  /\ lastResponse' = NoResponse
  /\ UNCHANGED <<jobs, nextInternalJobId, now, pure, chat, GOOGLE_API_KEY, ANTHROPIC_API_KEY, posts,
                 attempts, statusGets, resultGets, terminalWrites>>

\* the batch resource OpenAI answers with
OpenAIBatches == {[status |-> "in_progress", output_file_id |-> Null],
                  [status |-> "completed", output_file_id |-> "file-abc"]}

\* the operation resource Gemini answers a file-upload call with
GeminiBatchOperations == {[state |-> "BATCH_STATE_RUNNING", outputFileName |-> Null],
                          [state |-> "BATCH_STATE_SUCCEEDED", outputFileName |-> Null],
                          [state |-> "BATCH_STATE_SUCCEEDED", outputFileName |-> "files/out"]}

UploadStatusAnswers(modelId) ==
  IF modelId = "gemini" THEN Answers(GeminiBatchOperations) ELSE Answers(OpenAIBatches)

\* lines 371-374: the output file id is kept in the record of the batch, if it has one
UploadStatusStored(store, operationName, data) ==
  IF operationName \in DOMAIN store
  THEN [store EXCEPT ![operationName].successData = data.output_file_id]
  ELSE store

\* what the call returns: lines 362 and 371
UploadStatusValue(modelId, operationName, data) ==
  IF modelId = "gemini" THEN [state |-> data.state, fullResponse |-> data]
  ELSE [j \in {operationName} |->
          [status |-> data.status, result |-> data.output_file_id, lastChecked |-> "completed_at"]]

\* the continuation after the axios.get of lines 360 and 367
UploadStatusResponse(c, response) ==
  LET operationName == calls[c].ids[1]
      modelId == calls[c].modelId
      call == [calls[c] EXCEPT !.ret = UploadStatusValue(modelId, operationName, response.data),
                               !.pending = << >>]
  IN
  /\ IF response.error # Null
     THEN /\ lastReturned' = Threw("uploadStatus", response.error)
          /\ UNCHANGED jobs
     ELSE /\ lastReturned' = Returned(call)
          /\ jobs' = IF modelId = "openai"
                     THEN UploadStatusStored(jobs, operationName, response.data)
                     ELSE jobs
  /\ calls' = [calls EXCEPT ![c] = UploadDone]
  /\ lastResponse' = Delivered(c, operationName, response)
  /\ UNCHANGED <<nextInternalJobId, now, pure, chat, GOOGLE_API_KEY, ANTHROPIC_API_KEY, posts, attempts,
                 statusGets, resultGets, terminalWrites>>

\* a check that does not look for the output file id
UploadResultSyncError_NoFileCheck(modelId, operationName) ==
  IF modelId \in {"gemini", "openai"} THEN Null
  ELSE "Model not supported for file upload batch result retrieval."

\* what the file-upload branch of getBatchJobResult throws before its first await, or
\* Null (lines 453-484)
UploadResultSyncError(modelId, operationName) ==
  IF modelId = "gemini" THEN Null
  ELSE IF modelId = "openai"
       THEN IF operationName \notin Known \/ jobs[operationName].successData = Null
            THEN "Job not found or output file ID missing."
            ELSE Null
       ELSE "Model not supported for file upload batch result retrieval."

\* getBatchJobResult(internalJobIds, isSingleBatchChat, true, modelId) up to its first await
getBatchJobResultUpload(ids, modelId) ==
  LET err == IF IdsValidationError(ids) # Null THEN IdsValidationError(ids)
             ELSE UploadResultSyncError(modelId, ids[1])
      call == [op |-> "uploadResult", ids |-> ids, ret |-> << >>,
               pending |-> Waiting({ids[1]}, IF modelId = "gemini" THEN "state" ELSE "content"),
               modelId |-> modelId]
  IN
  /\ Len(calls) < MaxCalls
  /\ UploadCallsLeft
  /\ IF err # Null
     THEN /\ lastReturned' = Threw("uploadResult", err)
          /\ calls' = calls
     ELSE /\ lastReturned' = NoCall
          /\ calls' = Append(calls, call)
  /\ lastResponse' = NoResponse
  /\ UNCHANGED <<jobs, nextInternalJobId, now, pure, chat, GOOGLE_API_KEY, ANTHROPIC_API_KEY, posts,
                 attempts, statusGets, resultGets, terminalWrites>>

\* what the continuation throws after the request of this step was answered, or Null
UploadResultError(step, response) ==
  IF response.error # Null THEN response.error
  ELSE IF step = "state"
       THEN IF response.data.state # "BATCH_STATE_SUCCEEDED"
            THEN "Batch is not completed yet."
            ELSE IF response.data.outputFileName = Null
                 THEN "Batch completed, but no output file name found in its metadata."
                 ELSE Null
       ELSE IF response.data = "object" THEN "jsonlString.trim is not a function" ELSE Null

UploadResultAnswers(step) ==
  IF step = "state" THEN Answers(GeminiBatchOperations) ELSE Answers(Downloads)

\* lines 468-471 and 478-481
UploadResultValue == [results |-> "parseJsonlResults", usageData |-> "parseJsonlUsageData"]

\* the continuation after the axios.get of lines 457, 467 and 477
UploadResultResponse(c, response) ==
  LET operationName == calls[c].ids[1]
      step == calls[c].pending[operationName]
      err == UploadResultError(step, response)
      call == [calls[c] EXCEPT !.ret = UploadResultValue, !.pending = << >>]
  IN
  /\ IF err # Null
     THEN /\ lastReturned' = Threw("uploadResult", err)
          /\ calls' = [calls EXCEPT ![c] = UploadDone]
     ELSE IF step = "state"
          THEN /\ lastReturned' = NoCall
               /\ calls' = [calls EXCEPT ![c].pending[operationName] = "download"]
          ELSE /\ lastReturned' = Returned(call)
               /\ calls' = [calls EXCEPT ![c] = UploadDone]
  /\ lastResponse' = Delivered(c, operationName, response)
  /\ UNCHANGED <<jobs, nextInternalJobId, now, pure, chat, GOOGLE_API_KEY, ANTHROPIC_API_KEY, posts,
                 attempts, statusGets, resultGets, terminalWrites>>

UploadStatusCall ==
  \E ids \in UploadIdLists, modelId \in UploadModels : getBatchJobStatusUpload(ids, modelId)

UploadPollResponse ==
  \E c \in DOMAIN calls :
    /\ calls[c].op = "uploadStatus"
    /\ \E response \in UploadStatusAnswers(calls[c].modelId) : UploadStatusResponse(c, response)

UploadResultCall ==
  \E ids \in UploadIdLists, modelId \in UploadModels : getBatchJobResultUpload(ids, modelId)

UploadFetchResponse ==
  \E c \in DOMAIN calls :
    /\ calls[c].op = "uploadResult"
    /\ \E response \in UploadResultAnswers(calls[c].pending[calls[c].ids[1]]) :
         UploadResultResponse(c, response)

\* a submission is tried while no more than MaxUploadCalls file-upload calls were made
SubmitBesideUploads == Cardinality(UploadCalls) <= MaxUploadCalls /\ Submit

NextUpload ==
  \/ SubmitBesideUploads
  \/ CreateResponse
  \/ RegisterUpload
  \/ UploadStatusCall
  \/ UploadPollResponse
  \/ UploadResultCall
  \/ UploadFetchResponse

\* submissions, registrations and the calls of the file-upload mode
SpecUpload == Init /\ [][NextUpload]_vars

NextOpenAIUpload ==
  \/ RegisterUpload
  \/ UploadStatusCall
  \/ UploadPollResponse
  \/ UploadResultCall
  \/ UploadFetchResponse

\* the file-upload mode on its own: no text-input job is submitted
SpecOpenAIUpload == Init /\ [][NextOpenAIUpload]_vars

\* ================================================================ claims
Range(seq) == {seq[i] : i \in 1..Len(seq)}

\* the call a step started, as it stands after the step; a call that settled in
\* the step it started in is read from what it returned
StartedCall == IF calls'[Len(calls')] = Done THEN lastReturned' ELSE calls'[Len(calls')]

Started(op) == Len(calls') = Len(calls) + 1 /\ StartedCall.op = op

\* call c as it stands after a step that delivered one of its responses
CallAfter(c) == IF calls'[c] = Done THEN lastReturned' ELSE calls'[c]

ValidationMessages == {"At least one LLM must be selected.",
                       "Prompts are required for text input method.",
                       "No job IDs provided."}

\* C1: under every interleaving of the three entry points, a job's status never
\* goes from RUNNING back to PENDING, and never changes once it is COMPLETED or FAILED.
C1_StatusOnlyMovesForward ==
  [][\A j \in Known :
       /\ jobs[j].status = "RUNNING" => jobs'[j].status # "PENDING"
       /\ IsTerminal(jobs[j].status) => jobs'[j].status = jobs[j].status]_vars

\* C2: a getBatchJobStatus call that finds a job COMPLETED or FAILED leaves the
\* job record as it is, sends no request for it, and answers with the stored status,
\* result and lastChecked (so the same call made again answers the same).
C2_TerminalJobAnsweredFromStore ==
  [][Started("status") =>
       \A j \in Range(StartedCall.ids) \cap Known :
         IsTerminal(jobs[j].status) =>
           /\ jobs'[j] = jobs[j]
           /\ statusGets'[j] = statusGets[j]
           /\ j \in DOMAIN StartedCall.ret
           /\ StartedCall.ret[j] = [status |-> jobs[j].status, result |-> jobs[j].result,
                                    lastChecked |-> jobs[j].lastChecked]]_vars

C2_Witness ==
  /\ lastReturned.op = "status"
  /\ \E j \in DOMAIN lastReturned.ret :
       /\ lastReturned.ret[j].status = "FAILED"
       /\ lastReturned.ret[j].result = Str("Failed to submit job: ", "Network Error")
       /\ jobs[j].status = "FAILED"

\* C3: getBatchJobStatus sends no provider request for a job that is COMPLETED or
\* FAILED, and over the life of a job at most one status response moves it into a
\* terminal status.
C3_AtMostOneTerminalTransition ==
  [][\A j \in JobIds :
       /\ (j \in Known /\ IsTerminal(jobs[j].status)) => statusGets'[j] = statusGets[j]
       /\ terminalWrites'[j] <= 1]_vars

\* C4: a submitBatchJob call that passes validation does not reject, and the map
\* it returns has an entry for every provider id of its models list, failed or not.
C4_SubmitAnswersEveryProvider ==
  /\ lastReturned.op = "submit" =>
       IF lastReturned.outcome = "threw"
       THEN lastReturned.message \in ValidationMessages
       ELSE /\ Len(lastReturned.ids) > 0
            /\ DOMAIN lastReturned.ret = {jobs[j].model : j \in Range(lastReturned.ids)}
            /\ \A m \in DOMAIN lastReturned.ret : lastReturned.ret[m].status \in {"PENDING", "FAILED"}
  /\ \A c \in DOMAIN calls : calls[c].op = "submit" => DOMAIN calls[c].pending # {}

C4_Witness ==
  /\ lastReturned.op = "submit"
  /\ lastReturned.outcome = "returned"
  /\ \E m1, m2 \in DOMAIN lastReturned.ret :
       /\ lastReturned.ret[m1].status = "FAILED"
       /\ lastReturned.ret[m2].status = "FAILED"
       /\ m1 # m2

ProviderErrors == NetworkErrors \cup {CreateErrorMessage("no-name")}

\* C5: a job whose creation step failed is stored FAILED with the error in its
\* result and a null llmJobId, its creation step ran once and sent at most one
\* request (one when the provider was reached, none when the key is missing or the
\* provider unsupported); a sibling the provider accepted has its provider id recorded.
C5_FailedCreationIsIsolated ==
  /\ (lastReturned.op = "submit" /\ lastReturned.outcome = "returned") =>
       \A m \in DOMAIN lastReturned.ret :
         LET entry == lastReturned.ret[m]
             j == entry.internalJobId
         IN  /\ attempts[j] = 1
             /\ entry.status = "FAILED" =>
                  /\ jobs[j].status = "FAILED"
                  /\ jobs[j].result = Str("Failed to submit job: ", entry.message)
                  /\ jobs[j].llmJobId = Null
                  /\ posts[j] = IF entry.message \in ProviderErrors THEN 1 ELSE 0
             /\ entry.status = "PENDING" =>
                  /\ jobs[j].llmJobId = entry.llmJobId
                  /\ jobs[j].llmJobId # Null
                  /\ posts[j] = 1
  /\ \A j \in Known :
       (jobs[j].result # NullResult /\ jobs[j].result[1] = "Failed to submit job: ") =>
         /\ jobs[j].status = "FAILED"
         /\ jobs[j].llmJobId = Null
         /\ attempts[j] = 1
         /\ posts[j] <= 1

C5_Witness ==
  /\ lastReturned.op = "submit"
  /\ lastReturned.outcome = "returned"
  /\ \E m1, m2 \in DOMAIN lastReturned.ret :
       /\ lastReturned.ret[m1].status = "FAILED"
       /\ lastReturned.ret[m1].message = "Network Error"
       /\ lastReturned.ret[m2].status = "PENDING"
       /\ jobs[lastReturned.ret[m2].internalJobId].status = "PENDING"

\* C6: when the provider accepts a submission, then at the moment submitBatchJob
\* returns the provider job id is recorded and the stored status is PENDING, equal
\* to the status in the acknowledgement, also when getBatchJobStatus ran meanwhile.
C6_AcceptedJobIsPendingAtReturn ==
  (lastReturned.op = "submit" /\ lastReturned.outcome = "returned") =>
    \A m \in DOMAIN lastReturned.ret :
      lastReturned.ret[m].status = "PENDING" =>
        /\ jobs[lastReturned.ret[m].internalJobId].llmJobId = lastReturned.ret[m].llmJobId
        /\ jobs[lastReturned.ret[m].internalJobId].status = "PENDING"

\* C7: the entry points throw their validation error before anything else happens:
\* a call that throws leaves the store, the id counter and the request counts as they
\* were, no call with an empty list returns, and no text_input job without prompts
\* is ever stored.
C7_ValidationThrowsFirst ==
  [][/\ lastReturned'.outcome = "threw" =>
          /\ lastReturned'.message \in ValidationMessages
          /\ UNCHANGED <<jobs, nextInternalJobId, posts, attempts, statusGets, resultGets, calls>>
     /\ lastReturned'.outcome = "returned" => Len(lastReturned'.ids) > 0
     /\ \A j \in DOMAIN jobs' :
          jobs'[j].method = "text_input" => Len(jobs'[j].prompts) > 0]_vars

C7_Witness ==
  /\ lastReturned.outcome = "threw"
  /\ lastReturned.op = "submit"
  /\ lastReturned.message = "Prompts are required for text input method."
  /\ Known # {}

\* C8: getBatchJobStatus answers NOT_FOUND for an id that is not in the store,
\* without throwing, without creating or changing a job and without a provider
\* request; the other ids of the call are resolved all the same.
C8_UnknownIdIsNotFound ==
  [][/\ Started("status") =>
          /\ DOMAIN jobs' = DOMAIN jobs
          /\ \A j \in Range(StartedCall.ids) :
               IF j \in Known
               THEN \/ j \in DOMAIN StartedCall.pending
                    \/ /\ j \in DOMAIN StartedCall.ret
                       /\ StartedCall.ret[j].status = jobs'[j].status
               ELSE /\ j \in DOMAIN StartedCall.ret
                    /\ StartedCall.ret[j] = [status |-> "NOT_FOUND", message |-> "Job not found."]
                    /\ statusGets'[j] = statusGets[j]
     /\ (lastReturned'.op = "status" /\ lastReturned'.outcome = "returned") =>
          DOMAIN lastReturned'.ret = Range(lastReturned'.ids)]_vars

C8_Witness ==
  /\ lastReturned.op = "status"
  /\ lastReturned.outcome = "returned"
  /\ \E j, k \in DOMAIN lastReturned.ret :
       /\ lastReturned.ret[j].status = "NOT_FOUND"
       /\ j \notin Known
       /\ lastReturned.ret[k].status = "COMPLETED"

\* the status a provider answer stands for, where the answer decides it
ImpliedStatus(modelId, lroInfo) ==
  IF modelId = "gemini"
  THEN IF lroInfo.done THEN (IF lroInfo.error THEN {"FAILED"} ELSE {"COMPLETED"})
       ELSE IF lroInfo.error THEN {"RUNNING", "FAILED"} ELSE {"RUNNING"}
  ELSE IF lroInfo.ended_at /\ lroInfo.processing_status = "ended" THEN {"COMPLETED"}
       ELSE {"RUNNING"}

\* C9: in a getBatchJobStatus call over several ids, a provider request that throws
\* makes its own job FAILED with a diagnostic result; every other job of the call
\* keeps its record, its entry or its pending request, is reported with the status
\* of its own answer, and has an entry when the call returns.
C9_PollFailureIsPerJob ==
  [][(lastResponse'.call # 0 /\ calls[lastResponse'.call].op = "status") =>
       LET c == lastResponse'.call
           j == lastResponse'.job
           response == lastResponse'.response
           after == CallAfter(c)
       IN  /\ response.error # Null =>
                /\ jobs'[j].status = "FAILED"
                /\ jobs'[j].result = Str("Failed to check status: ", response.error)
           /\ response.error = Null => jobs'[j].status \in ImpliedStatus(jobs[j].model, response.data)
           /\ after.ret[j].status = jobs'[j].status
           /\ after.ret[j].result = jobs'[j].result
           /\ \A k \in Known \ {j} : jobs'[k] = jobs[k]
           /\ \A k \in DOMAIN calls[c].ret : after.ret[k] = calls[c].ret[k]
           /\ \A k \in DOMAIN calls[c].pending \ {j} :
                calls'[c] # Done /\ k \in DOMAIN calls'[c].pending
           /\ calls'[c] = Done => DOMAIN after.ret = Range(after.ids)]_vars

C9_Witness ==
  /\ lastReturned.op = "status"
  /\ lastReturned.outcome = "returned"
  /\ \E j, k \in DOMAIN lastReturned.ret :
       /\ lastReturned.ret[j].status = "FAILED"
       /\ lastReturned.ret[j].result = Str("Failed to check status: ", "Network Error")
       /\ lastReturned.ret[k].status = "COMPLETED"
       /\ lastResponse.job = k

\* C10: every job that is FAILED has a non-null, non-empty string as its result.
C10_FailedJobHasDiagnostic ==
  \A j \in Known :
    jobs[j].status = "FAILED" =>
      /\ jobs[j].result # NullResult
      /\ \E i \in 1..Len(jobs[j].result) : jobs[j].result[i] # ""

\* C11: a provider answer delivered to the status callback of a Gemini job that is
\* not COMPLETED or FAILED gives it the status RUNNING when done is false, FAILED with
\* the error message in result when done is true with an error, and COMPLETED with
\* the payload in successData when done is true without one.
C11_GeminiAnswerMapsToStatus ==
  [][(lastResponse'.call # 0 /\ calls[lastResponse'.call].op = "status") =>
       LET j == lastResponse'.job
           response == lastResponse'.response
       IN  (jobs[j].model = "gemini" /\ response.error = Null /\ ~IsTerminal(jobs[j].status)) =>
             IF ~response.data.done
             THEN jobs'[j].status = "RUNNING"
             ELSE IF response.data.error
                  THEN /\ jobs'[j].status = "FAILED"
                       /\ jobs'[j].result = Str("Gemini job failed: ", "error.message")
                  ELSE /\ jobs'[j].status = "COMPLETED"
                       /\ jobs'[j].successData = "lroInfo"]_vars

\* C12: a status callback of a job that is in the store and not COMPLETED or FAILED
\* sets lastChecked to the clock's value when it ends, in the step that starts the
\* call when it reaches no await and in the step that delivers its answer otherwise,
\* whether the request was answered or threw; lastChecked of a job never decreases.
C12_LastCheckedFollowsTheClock ==
  [][/\ \A j \in Known : jobs'[j].lastChecked >= jobs[j].lastChecked
     /\ (lastResponse'.call # 0 /\ calls[lastResponse'.call].op = "status") =>
          jobs'[lastResponse'.job].lastChecked = now
     /\ Started("status") =>
          \A j \in Range(StartedCall.ids) \cap Known :
            ~IsTerminal(jobs[j].status) =>
              \/ j \in DOMAIN StartedCall.pending
              \/ jobs'[j].lastChecked = now]_vars

\* one submitBatchJob call created both jobs at time 0; the status call that followed
\* had the request of job 1 rejected at time 1
C12_Witness ==
  /\ lastResponse.call = 2
  /\ lastReturned.op = "status"
  /\ lastResponse.job = 1
  /\ lastResponse.response.error # Null
  /\ Known = {1, 2}
  /\ now = 1
  /\ jobs[1].lastChecked = 1
  /\ jobs[2].lastChecked = 0

\* C13: a getBatchJobResult call sends no request for a job that is in the store
\* with a status other than COMPLETED, and leaves every field of that job as it is.
C13_ResultLeavesUnfinishedJobAlone ==
  [][Started("result") =>
       \A j \in Range(StartedCall.ids) \cap Known :
         jobs[j].status # "COMPLETED" =>
           /\ jobs'[j] = jobs[j]
           /\ resultGets'[j] = resultGets[j]
           /\ j \notin DOMAIN StartedCall.pending]_vars

C13_Witness ==
  /\ lastReturned.op = "result"
  /\ lastReturned.outcome = "returned"
  /\ \E j, k \in Range(lastReturned.ids) \cap Known :
       /\ jobs[j].status = "RUNNING"
       /\ jobs[k].status = "FAILED"

\* C14: the map a getBatchJobResult call returns has an entry for every id it was
\* given, and the entry of a job that is in the store carries the job's status.
C14_ResultAnswersEveryId ==
  (lastReturned.op = "result" /\ lastReturned.outcome = "returned") =>
    \A j \in Range(lastReturned.ids) :
      /\ j \in DOMAIN lastReturned.ret
      /\ j \in Known => lastReturned.ret[j].status = jobs[j].status

\* C15: a getBatchJobResult call sends no request for a COMPLETED job whose
\* successData is set, and one request in all for a COMPLETED job whose successData
\* is not set.
C15_CachedPayloadNeedsNoRequest ==
  [][/\ Started("result") =>
          \A j \in Range(StartedCall.ids) \cap Known :
            jobs[j].status = "COMPLETED" =>
              resultGets'[j] = resultGets[j] + (IF jobs[j].successData # Null THEN 0 ELSE 1)
     /\ (lastResponse'.call # 0 /\ calls[lastResponse'.call].op = "result") =>
          resultGets' = resultGets]_vars

\* ------------------------------------------- the formatters and the parsers
\* Each is a function of its arguments; it is applied on its own, to arguments
\* drawn from the sets below.
MaxPrompts == 3
MaxItems == 2
MaxLines == 3

Prompts == {"p1", "p2"}

RECURSIVE SeqsUpTo(_, _)
SeqsUpTo(S, n) ==
  IF n = 0 THEN {<< >>}
  ELSE LET shorter == SeqsUpTo(S, n - 1)
       IN  shorter \cup {Append(q, x) : q \in shorter, x \in S}

PromptLists == SeqsUpTo(Prompts, MaxPrompts)

\* a key that starts at request-0
RequestKey_FromZero(n) == <<"request-", ToString(n - 1)>>

\* `request-${index + 1}`, n = index + 1
RequestKey(n) == <<"request-", ToString(n)>>

SystemInstruction(systemPrompt) ==
  IF systemPrompt # Null THEN [parts |-> <<[text |-> systemPrompt]>>] ELSE Null

\* what the function returns: `shape` tells an array of items from a single object
formatGeminiBatchRequests(rawPrompts, isSingleBatchChat, temperature, systemPrompt) ==
  IF isSingleBatchChat
  THEN [shape |-> "object",
        items |-> <<[metadata |-> [key |-> RequestKey(1)],
                     request |-> [contents |-> [i \in 1..Len(rawPrompts) |->
                                                  [role |-> "user", parts |-> <<[text |-> rawPrompts[i]]>>]],
                                  generationConfig |-> [temperature |-> temperature],
                                  systemInstruction |-> SystemInstruction(systemPrompt)]]>>]
  ELSE [shape |-> "array",
        items |-> [i \in 1..Len(rawPrompts) |->
                     [metadata |-> [key |-> RequestKey(i)],
                      request |-> [contents |-> <<[role |-> Null, parts |-> <<[text |-> rawPrompts[i]]>>]>>,
                                   generationConfig |-> [temperature |-> temperature],
                                   systemInstruction |-> SystemInstruction(systemPrompt)]]]]

formatClaudeBatchRequests(rawPrompts, isSingleBatchChat) ==
  IF isSingleBatchChat
  THEN [shape |-> "array",
        items |-> <<[custom_id |-> RequestKey(1),
                     params |-> [model |-> "ANTHROPIC_MODEL", max_tokens |-> "ANTHROPIC_MAX_TOKENS",
                                 messages |-> [i \in 1..Len(rawPrompts) |->
                                                 [role |-> "user", content |-> rawPrompts[i]]]]]>>]
  ELSE [shape |-> "array",
        items |-> [i \in 1..Len(rawPrompts) |->
                     [custom_id |-> RequestKey(i),
                      params |-> [model |-> "ANTHROPIC_MODEL", max_tokens |-> "ANTHROPIC_MAX_TOKENS",
                                  messages |-> <<[role |-> "user", content |-> rawPrompts[i]]>>]]]]

FormatGeminiArgs == [rawPrompts : PromptLists, isSingleBatchChat : BOOLEAN,
                     systemPrompt : {Null, "system"}]

FormatClaudeArgs == [rawPrompts : PromptLists, isSingleBatchChat : BOOLEAN]

Call(fn, arg) == [fn |-> fn, done |-> FALSE, arg |-> arg]

Value(out) == [pure EXCEPT !.done = TRUE] @@ [out |-> out]

\* the variables of the job lifecycle
lifecycle == <<jobs, nextInternalJobId, now, GOOGLE_API_KEY, ANTHROPIC_API_KEY, calls,
               lastReturned, lastResponse, posts, attempts, statusGets, resultGets,
               terminalWrites, chat>>

FormatGemini ==
  /\ pure.fn = "formatGeminiBatchRequests" /\ ~pure.done
  /\ pure' = Value(formatGeminiBatchRequests(pure.arg.rawPrompts, pure.arg.isSingleBatchChat,
                                             "temperature", pure.arg.systemPrompt))
  /\ UNCHANGED lifecycle

FormatClaude ==
  /\ pure.fn = "formatClaudeBatchRequests" /\ ~pure.done
  /\ pure' = Value(formatClaudeBatchRequests(pure.arg.rawPrompts, pure.arg.isSingleBatchChat))
  /\ UNCHANGED lifecycle

\* ---- numbers of a provider payload
\* a field that is not there reads as undefined
Undefined == -1

\* what a sum becomes once undefined was added to it
NaN == -2

\* x || 0
OrZero(x) == IF x = Undefined \/ x = NaN THEN 0 ELSE x

\* total += x
PlusEquals(total, x) == IF total = NaN \/ x = Undefined \/ x = NaN THEN NaN ELSE total + x

\* a key that is not there
NoKey == << >>

\* array.join(sep), the pieces of the string in order
RECURSIVE Join(_, _)
Join(pieces, sep) ==
  IF Len(pieces) = 0 THEN << >>
  ELSE IF Len(pieces) = 1 THEN <<pieces[1]>>
       ELSE <<pieces[1], sep>> \o Join(Tail(pieces), sep)

\* ---- parseGeminiInlineResponses
\* one of the two places of the operation where the inline responses can be
NoList == [present |-> FALSE, items |-> << >>]

List(items) == [present |-> TRUE, items |-> items]

\* lroInfo.response?.inlinedResponses?.inlinedResponses ||
\* lroInfo.metadata?.output?.inlinedResponses?.inlinedResponses || []
InlinedResponses(lroInfo) ==
  IF lroInfo.response.present THEN lroInfo.response.items
  ELSE IF lroInfo.metadata.present THEN lroInfo.metadata.items
       ELSE << >>

NoInlineResponses == "Gemini batch job SUCCEEDED, but no inline responses found."

\* lines 568-573, index counted from 1
GeminiPromptOf(item, index, originalPrompts, isSingleBatchChat) ==
  IF isSingleBatchChat THEN Join(originalPrompts, "__")
  ELSE IF index <= Len(originalPrompts) THEN <<originalPrompts[index]>>
       ELSE <<"(Prompt ", ToString(index), ")">>

\* lines 574-585: one block of the rendered text
GeminiBlock(item, index, originalPrompts, isSingleBatchChat) ==
  [key |-> IF item.metadata # NoKey THEN item.metadata ELSE <<"(Index ", ToString(index), ")">>,
   prompt |-> GeminiPromptOf(item, index, originalPrompts, isSingleBatchChat),
   response |-> IF item.response = "text" THEN "text"
                ELSE IF item.response # Null THEN "JSON.stringify(item.response)"
                     ELSE "[No response content]",
   error |-> item.error]

\* the rendered text: `text` when it is the fixed sentence, else the blocks that
\* are joined with blank lines
parseGeminiInlineResponses(lroInfo, originalPrompts, isSingleBatchChat) ==
  LET inlinedResponses == InlinedResponses(lroInfo)
  IN  IF Len(inlinedResponses) = 0
      THEN [text |-> NoInlineResponses, blocks |-> << >>]
      ELSE [text |-> Null,
            blocks |-> [i \in 1..Len(inlinedResponses) |->
                          GeminiBlock(inlinedResponses[i], i, originalPrompts, isSingleBatchChat)]]

\* the items a Gemini operation answers with: its key, and a response with text,
\* a response without, or an error
GeminiItems ==
  {[metadata |-> k, response |-> r[1], error |-> r[2]] :
     k \in {RequestKey(n) : n \in 1..MaxItems} \cup {NoKey},
     r \in {<<"text", Null>>, <<"other", Null>>, <<Null, "error.message">>}}

GeminiOperations(items) ==
  {[response |-> List(q), metadata |-> NoList] : q \in SeqsUpTo(items, MaxItems)}
    \cup {[response |-> NoList, metadata |-> List(q)] : q \in SeqsUpTo(items, MaxItems)}
    \cup {[response |-> NoList, metadata |-> NoList]}

ParseGeminiArgs == [lroInfo : GeminiOperations(GeminiItems), originalPrompts : PromptLists,
                    isSingleBatchChat : BOOLEAN]

ParseGeminiInline ==
  /\ pure.fn = "parseGeminiInlineResponses" /\ ~pure.done
  /\ pure' = Value(parseGeminiInlineResponses(pure.arg.lroInfo, pure.arg.originalPrompts,
                                              pure.arg.isSingleBatchChat))
  /\ UNCHANGED lifecycle

\* ---- parseGeminiUsageData
NoUsageMetadata == [promptTokenCount |-> Undefined, candidatesTokenCount |-> Undefined,
                    totalTokenCount |-> Undefined, thoughtsTokenCount |-> Undefined,
                    promptTokensDetails |-> << >>]

\* entry?.response?.usageMetadata || {}
UsageMetadataOf(entry) == IF entry.response THEN entry.usageMetadata ELSE NoUsageMetadata

RECURSIVE SumOrZero(_)
SumOrZero(xs) == IF Len(xs) = 0 THEN 0 ELSE OrZero(xs[1]) + SumOrZero(Tail(xs))

\* the loop of lines 672-694 for one scalar field
SumOfField(entries, field) ==
  SumOrZero([i \in 1..Len(entries) |-> UsageMetadataOf(entries[i])[field]])

SumOfDetails(entries) ==
  SumOrZero([i \in 1..Len(entries) |-> SumOrZero(UsageMetadataOf(entries[i]).promptTokensDetails)])

AggregatedOutput(entries) ==
  [promptTokenCount |-> SumOfField(entries, "promptTokenCount"),
   candidatesTokenCount |-> SumOfField(entries, "candidatesTokenCount"),
   totalTokenCount |-> SumOfField(entries, "totalTokenCount"),
   promptTokensDetails |-> <<[modality |-> "TEXT", tokenCount |-> SumOfDetails(entries)]>>,
   thoughtsTokenCount |-> SumOfField(entries, "thoughtsTokenCount")]

\* `text` when the function returns the fixed sentence, else the usage object
parseGeminiUsageData(lroInfo, originalPrompts, isSingleBatchChat) ==
  LET inlinedResponses == InlinedResponses(lroInfo)
  IN  IF Len(inlinedResponses) = 0
      THEN [text |-> NoInlineResponses, usageMetadata |-> NoUsageMetadata]
      ELSE [text |-> Null,
            usageMetadata |-> IF isSingleBatchChat
                              THEN AggregatedOutput(<<inlinedResponses[1]>>)
                              ELSE AggregatedOutput(inlinedResponses)]

\* the items as far as usage goes: no response, or a response whose usageMetadata
\* has each count or not
GeminiUsageItems ==
  {[response |-> FALSE, usageMetadata |-> NoUsageMetadata]} \cup
  {[response |-> TRUE,
    usageMetadata |-> [promptTokenCount |-> p, candidatesTokenCount |-> c,
                       totalTokenCount |-> t, thoughtsTokenCount |-> th,
                       promptTokensDetails |-> IF p = Undefined THEN << >> ELSE <<p>>]] :
     p \in {Undefined, 1, 2}, c \in {Undefined, 1}, t \in {Undefined, 3}, th \in {Undefined, 1}}

ParseGeminiUsageArgs == [lroInfo : GeminiOperations(GeminiUsageItems),
                         isSingleBatchChat : BOOLEAN]

ParseGeminiUsage ==
  /\ pure.fn = "parseGeminiUsageData" /\ ~pure.done
  /\ pure' = Value(parseGeminiUsageData(pure.arg.lroInfo, << >>, pure.arg.isSingleBatchChat))
  /\ UNCHANGED lifecycle

\* ---- getClaudeJobResult
NoClaudeUsage == [input_tokens |-> Undefined, cache_creation_input_tokens |-> Undefined,
                  cache_read_input_tokens |-> Undefined, output_tokens |-> Undefined]

\* the lines of a results file: a blank line, a line that is not JSON, or a result
\* with its custom_id, its type (succeeded, errored, expired), and the usage of its
\* message when it has one
ClaudeLines ==
  {[kind |-> "blank", custom_id |-> NoKey, type |-> Null, usage |-> NoClaudeUsage],
   [kind |-> "garbage", custom_id |-> NoKey, type |-> Null, usage |-> NoClaudeUsage],
   [kind |-> "json", custom_id |-> RequestKey(1), type |-> "succeeded",
    usage |-> [input_tokens |-> 1, cache_creation_input_tokens |-> Undefined,
               cache_read_input_tokens |-> Undefined, output_tokens |-> 1]]} \cup
  {[kind |-> "json", custom_id |-> k, type |-> "succeeded",
    usage |-> [input_tokens |-> 2, cache_creation_input_tokens |-> 0,
               cache_read_input_tokens |-> 1, output_tokens |-> 1]] :
     k \in {RequestKey(n) : n \in 1..MaxItems}} \cup
  {[kind |-> "json", custom_id |-> k, type |-> t, usage |-> NoClaudeUsage] :
     k \in {RequestKey(n) : n \in 1..MaxItems}, t \in {"errored", "expired"}}

\* resultsResponse.data: the text of the file or, when the file is one line, the
\* object axios parsed it into; or the request throws
ClaudeDownloads ==
  [error : {Null}, shape : {"text"}, lines : SeqsUpTo(ClaudeLines, MaxItems)] \cup
  [error : {Null}, shape : {"object"}, lines : {<<l>> : l \in {c \in ClaudeLines : c.kind = "json"}}] \cup
  [error : NetworkErrors, shape : {"text"}, lines : {<< >>}]

\* what a line contributes when JSON.parse takes it; the prompt is looked up by the
\* count of the lines parsed so far
ClaudeBlock(line, counter, originalPrompts) ==
  [key |-> IF line.custom_id # NoKey THEN line.custom_id ELSE <<"(Index ", ToString(counter), ")">>,
   prompt |-> IF counter <= Len(originalPrompts) THEN <<originalPrompts[counter]>> ELSE <<"undefined">>,
   body |-> IF line.type = "succeeded" THEN "Response: "
            ELSE IF line.type = "errored" THEN "Error: "
                 ELSE IF line.type = "expired" THEN "Expired: " ELSE "Unknown: "]

ClaudeUsageFields == {"input_tokens", "cache_creation_input_tokens", "cache_read_input_tokens",
                      "output_tokens"}

\* lines 785-788 (753-756): each total += the field of the line
ClaudeAdd(totals, line) ==
  [f \in ClaudeUsageFields |-> PlusEquals(totals[f], line.usage[f])]

\* a parse that takes every line
ClaudeLineParses_Always(line) == TRUE

\* JSON.parse(line) of line 763 returns; when it throws the catch of line 790 logs
\* the line and the loop goes on
ClaudeLineParses(line) == line.kind = "json"

\* the loop of lines 761-793 over the lines that are not blank
RECURSIVE ClaudeLoop(_, _, _)
ClaudeLoop(lines, acc, originalPrompts) ==
  IF Len(lines) = 0 THEN acc
  ELSE LET line == lines[1]
           next == IF ~ClaudeLineParses(line) THEN acc
                   ELSE [counter |-> acc.counter + 1,
                         blocks |-> Append(acc.blocks, ClaudeBlock(line, acc.counter + 1, originalPrompts)),
                         totals |-> ClaudeAdd(acc.totals, line)]
       IN  ClaudeLoop(Tail(lines), next, originalPrompts)

ClaudeStart == [counter |-> 0, blocks |-> << >>, totals |-> [f \in ClaudeUsageFields |-> 0]]

\* a string destructured as if it were a result object: every field undefined
NotAnObject == [kind |-> "json", custom_id |-> NoKey, type |-> Null, usage |-> NoClaudeUsage]

\* the string the function returns: `usage` is FALSE when it is the message of the
\* catch block, which has no _USAGE_ part
getClaudeJobResult(download, originalPrompts, isSingleBatchChat) ==
  IF download.error # Null
  THEN [usage |-> FALSE, blocks |-> << >>, totals |-> ClaudeStart.totals,
        message |-> Str("Error fetching Claude batch results: ", download.error)]
  ELSE IF isSingleBatchChat
       THEN LET line == IF download.shape = "object" THEN download.lines[1] ELSE NotAnObject
            IN  [usage |-> TRUE,
                 blocks |-> <<[ClaudeBlock(line, 1, originalPrompts) EXCEPT
                                 !.prompt = Join(originalPrompts, "__")]>>,
                 totals |-> ClaudeAdd(ClaudeStart.totals, line),
                 message |-> NullResult]
       ELSE IF download.shape = "object"
            THEN [usage |-> FALSE, blocks |-> << >>, totals |-> ClaudeStart.totals,
                  message |-> Str("Error fetching Claude batch results: ",
                                  "jsonlString.split is not a function")]
            ELSE LET lines == SelectSeq(download.lines, LAMBDA l : l.kind # "blank")
                     end == ClaudeLoop(lines, ClaudeStart, originalPrompts)
                 IN  [usage |-> TRUE, blocks |-> end.blocks, totals |-> end.totals,
                      message |-> NullResult]

\* JSON.parse(JSON.stringify(n)): NaN is written as null
StoredNumber(n) == IF n = NaN THEN [null |-> TRUE, value |-> 0] ELSE [null |-> FALSE, value |-> n]

\* lines 520-522 of getBatchJobResult: what result and usageData of the job get from the
\* string, or the error JSON.parse throws when the string has no _USAGE_ part
ClaudeStored(allData) ==
  IF allData.usage
  THEN [threw |-> FALSE, result |-> allData.blocks,
        usageData |-> [f \in ClaudeUsageFields |-> StoredNumber(allData.totals[f])]]
  ELSE [threw |-> TRUE, result |-> << >>,
        usageData |-> [f \in ClaudeUsageFields |-> StoredNumber(NaN)]]

ClaudeResultArgs == [download : ClaudeDownloads, originalPrompts : PromptLists,
                     isSingleBatchChat : BOOLEAN]

ClaudeResult ==
  /\ pure.fn = "getClaudeJobResult" /\ ~pure.done
  /\ pure' = Value(ClaudeStored(getClaudeJobResult(pure.arg.download, pure.arg.originalPrompts,
                                                   pure.arg.isSingleBatchChat)))
  /\ UNCHANGED lifecycle

\* ---- parseJsonlResults
\* a document is a string of these: A and B are each the text of a JSON object, x
\* is text no JSON value has, and the line feed
LF == "\n"

\* line.trim() of the whole document: the line feeds at both ends go
RECURSIVE TrimLeft(_)
TrimLeft(doc) == IF Len(doc) > 0 /\ doc[1] = LF THEN TrimLeft(Tail(doc)) ELSE doc

RECURSIVE TrimRight(_)
TrimRight(doc) ==
  IF Len(doc) > 0 /\ doc[Len(doc)] = LF THEN TrimRight(SubSeq(doc, 1, Len(doc) - 1)) ELSE doc

Trim(doc) == TrimRight(TrimLeft(doc))

\* doc.split('\n'): the pieces between the line feeds, one piece when there is none
RECURSIVE SplitLines(_, _)
SplitLines(doc, piece) ==
  IF Len(doc) = 0 THEN <<piece>>
  ELSE IF doc[1] = LF THEN <<piece>> \o SplitLines(Tail(doc), << >>)
       ELSE SplitLines(Tail(doc), Append(piece, doc[1]))

\* JSON.parse(line) returns a value
JsonParses(line) == line \in {<<"A">>, <<"B">>}

\* a callback that gives nothing for a line JSON.parse throws on
JsonlEntries_DropsMalformed(line) ==
  IF Len(line) = 0 \/ ~JsonParses(line) THEN << >>
  ELSE <<[error |-> Null, value |-> line]>>

\* the callback of lines 815-824 and the filter of 825: the entries a line leaves
JsonlEntries(line) ==
  IF Len(line) = 0 THEN << >>
  ELSE IF JsonParses(line) THEN <<[error |-> Null, value |-> line]>>
       ELSE <<[error |-> "JSON parsing error on result line", value |-> line]>>

RECURSIVE Flatten(_)
Flatten(seqs) == IF Len(seqs) = 0 THEN << >> ELSE seqs[1] \o Flatten(Tail(seqs))

parseJsonlResults(jsonlString) ==
  LET lines == SplitLines(Trim(jsonlString), << >>)
  IN  Flatten([i \in 1..Len(lines) |-> JsonlEntries(lines[i])])

\* the lines a document is put together from: none, one JSON object, or text that
\* is no JSON value
JsonlLines == {<< >>, <<"A">>, <<"B">>, <<"x">>, <<"A", "x">>}

\* the document with these lines, with or without a line feed after the last
Document(lines, lastLF) == Flatten(Join(lines, <<LF>>)) \o (IF lastLF THEN <<LF>> ELSE << >>)

ParseJsonlArgs == [lines : SeqsUpTo(JsonlLines, MaxLines), lastLF : BOOLEAN]

ParseJsonl ==
  /\ pure.fn = "parseJsonlResults" /\ ~pure.done
  /\ pure' = Value(parseJsonlResults(Document(pure.arg.lines, pure.arg.lastLF)))
  /\ UNCHANGED lifecycle

\* ---- the payload of a batch-creation request
\* lines 290-300 and 313-314 of submitBatchJob: the request items the payload of a
\* provider is built from
batchRequestPayload(modelId, prompts, isSingleBatchChat, temperature, systemPrompt) ==
  IF modelId = "gemini"
  THEN formatGeminiBatchRequests(prompts, isSingleBatchChat, temperature, systemPrompt)
  ELSE formatClaudeBatchRequests(prompts, isSingleBatchChat)

BatchPayloadArgs == [modelId : {"gemini", "claude"}, prompts : PromptLists,
                     isSingleBatchChat : BOOLEAN, systemPrompt : {Null, "system"}]

BuildPayload ==
  /\ pure.fn = "batchRequestPayload" /\ ~pure.done
  /\ pure' = Value(batchRequestPayload(pure.arg.modelId, pure.arg.prompts,
                                       pure.arg.isSingleBatchChat, "temperature",
                                       pure.arg.systemPrompt))
  /\ UNCHANGED lifecycle

\* ---- the status shown for an uploaded OpenAI batch (src/public/bulk.js)
MaxWords == 2

\* a provider status string, as the words it is made of, in the spellings a batch
\* resource or a proxy in front of it can use; << >> is the empty or absent status
StatusWords == {"completed", "COMPLETED", "failed", "running", "in_progress", "In_Progress",
                "validating"}

\* String.prototype.toLowerCase, word by word
toLowerCase(status) ==
  [i \in DOMAIN status |->
     CASE status[i] = "COMPLETED" -> "completed"
       [] status[i] = "In_Progress" -> "in_progress"
       [] OTHER -> status[i]]

\* String.prototype.includes for a word
includes(status, word) == \E i \in DOMAIN status : status[i] = word

\* a mapping that asks for "failed" before it asks for "completed"
newStatus_FailedFirst(latestStatus, openaiJobStatus) ==
  IF openaiJobStatus = << >> THEN latestStatus
  ELSE IF includes(toLowerCase(openaiJobStatus), "failed") THEN "FAILED"
  ELSE IF includes(toLowerCase(openaiJobStatus), "completed") THEN "COMPLETED"
  ELSE IF includes(toLowerCase(openaiJobStatus), "running") THEN "RUNNING"
  ELSE IF includes(toLowerCase(openaiJobStatus), "in_progress") THEN "RUNNING"
  ELSE "PENDING"

\* fetchJobInfo, lines 1018 and 1047-1052 of bulk.js, for fetchType 'status': the entry
\* the server answers with has the keys status, result and lastChecked, so none of the
\* branches of lines 1053-1068 is taken
newStatus(latestStatus, openaiJobStatus) ==
  IF openaiJobStatus = << >> THEN latestStatus
  ELSE IF includes(toLowerCase(openaiJobStatus), "completed") THEN "COMPLETED"
  ELSE IF includes(toLowerCase(openaiJobStatus), "failed") THEN "FAILED"
  ELSE IF includes(toLowerCase(openaiJobStatus), "running") THEN "RUNNING"
  ELSE IF includes(toLowerCase(openaiJobStatus), "in_progress") THEN "RUNNING"
  ELSE "PENDING"

\* the status the job was shown with after the upload (lines 1149-1151 of bulk.js) or
\* after an earlier poll, and the status of the batch resource
ShownStatusArgs == [latestStatus : {"PENDING", "COMPLETED", "RUNNING", "FAILED", "UNKNOWN"},
                    openaiJobStatus : SeqsUpTo(StatusWords, MaxWords)]

ShowStatus ==
  /\ pure.fn = "newStatus" /\ ~pure.done
  /\ pure' = Value(newStatus(pure.arg.latestStatus, pure.arg.openaiJobStatus))
  /\ UNCHANGED lifecycle

\* ---- the history store and its editing functions (services/historyService.js)
MaxHistory == 3

\* two of the five containers, and two sessions
HistoryModels == {"gemini", "gpt"}
Guids == {"g1", "g2"}

\* what a history holds: the messages are told apart by their text
HistoryMessages == {"m1", "m2"}
Histories == SeqsUpTo(HistoryMessages, MaxHistory)

\* the containers, model -> (guid -> array): the history of gemini and g1 is any
\* array or is not there, the other entries are there or not
Entry(guid, history) == IF history = <<"absent">> THEN << >> ELSE [g \in {guid} |-> history]
HistoryStores ==
  {[m \in HistoryModels |->
      IF m = "gemini" THEN Entry("g1", a) @@ Entry("g2", b) ELSE Entry("g1", c)] :
     a \in Histories \cup {<<"absent">>},
     b \in {<<"absent">>, <<"m2">>},
     c \in {<<"absent">>, <<"m2", "m1">>}}

getHistoryContainer(store, modelId) == store[modelId]

\* Array.prototype.splice: the index a start value stands for
SpliceStart(array, start) ==
  IF start < 0 THEN (IF Len(array) + start < 0 THEN 0 ELSE Len(array) + start)
  ELSE IF start > Len(array) THEN Len(array) ELSE start

\* the array after splice(start, deleteCount); deleteCount -1 stands for the
\* one-argument call, which deletes up to the end
splice(array, start, deleteCount) ==
  LET from == SpliceStart(array, start)
      count == IF deleteCount < 0 \/ from + deleteCount > Len(array)
               THEN Len(array) - from ELSE deleteCount
  IN  SubSeq(array, 1, from) \o SubSeq(array, from + count + 1, Len(array))

\* the array after splice(start, 0, item)
spliceIn(array, start, item) ==
  LET from == SpliceStart(array, start)
  IN  SubSeq(array, 1, from) \o <<item>> \o SubSeq(array, from + 1, Len(array))

\* container[guid] = array
Stored(store, modelId, guid, array) ==
  [store EXCEPT ![modelId] = [g \in DOMAIN @ \cup {guid} |-> IF g = guid THEN array ELSE @[g]]]

\* delete container[guid]
Deleted(store, modelId, guid) ==
  [store EXCEPT ![modelId] = [g \in DOMAIN @ \ {guid} |-> @[g]]]

\* the array is written in place, and the entry is deleted when the array is empty
StoredOrDeleted(store, modelId, guid, array) ==
  IF Len(array) = 0 THEN Deleted(store, modelId, guid) ELSE Stored(store, modelId, guid, array)

effectiveClearCount(valueToClear) ==
  IF valueToClear % 2 # 0 THEN valueToClear + 1 ELSE valueToClear

\* the forEach of clearHistory for one container
ClearedContainer(store, modelId, guid, count) ==
  IF guid \notin DOMAIN store[modelId] THEN store
  ELSE LET historyArray == store[modelId][guid]
           cleared == IF Len(historyArray) > count THEN splice(historyArray, 0, count)
                      ELSE historyArray
       IN  StoredOrDeleted(store, modelId, guid, cleared)

RECURSIVE ClearedContainers(_, _, _, _)
ClearedContainers(store, models, guid, count) ==
  IF models = {} THEN store
  ELSE LET modelId == CHOOSE m \in models : TRUE
       IN  ClearedContainers(ClearedContainer(store, modelId, guid, count),
                             models \ {modelId}, guid, count)

clearHistory(store, guid, valueToClear) ==
  [store |-> ClearedContainers(store, HistoryModels, guid, effectiveClearCount(valueToClear)),
   ret |-> "undefined"]

removeLastMessages(store, modelId, guid, clearCount) ==
  LET historyContainer == getHistoryContainer(store, modelId)
  IN  IF guid \in DOMAIN historyContainer /\ Len(historyContainer[guid]) >= clearCount
      THEN [store |-> StoredOrDeleted(store, modelId, guid,
                                      splice(historyContainer[guid], -clearCount, -1)),
            ret |-> TRUE]
      ELSE [store |-> store, ret |-> FALSE]

\* a move that puts the message where the message of the target index was, and
\* that one where the moved message was
moveMessage_Swaps(store, modelId, guid, oldIndex, newIndex) ==
  LET historyContainer == getHistoryContainer(store, modelId)
  IN  IF \/ guid \notin DOMAIN historyContainer
         \/ Len(historyContainer[guid]) <= oldIndex
         \/ Len(historyContainer[guid]) <= newIndex
      THEN [store |-> store, ret |-> FALSE]
      ELSE LET h == historyContainer[guid]
           IN  [store |-> Stored(store, modelId, guid,
                                 [h EXCEPT ![oldIndex + 1] = h[newIndex + 1],
                                           ![newIndex + 1] = h[oldIndex + 1]]),
                ret |-> TRUE]

moveMessage(store, modelId, guid, oldIndex, newIndex) ==
  LET historyContainer == getHistoryContainer(store, modelId)
  IN  IF \/ guid \notin DOMAIN historyContainer
         \/ Len(historyContainer[guid]) <= oldIndex
         \/ Len(historyContainer[guid]) <= newIndex
      THEN [store |-> store, ret |-> FALSE]
      ELSE LET movedElement == historyContainer[guid][oldIndex + 1]
               without == splice(historyContainer[guid], oldIndex, 1)
           IN  [store |-> Stored(store, modelId, guid, spliceIn(without, newIndex, movedElement)),
                ret |-> TRUE]

\* a delete that leaves the entry of an emptied history in the container
deleteMessage_KeepsEmptyEntry(store, modelId, guid, messageIndex) ==
  LET historyContainer == getHistoryContainer(store, modelId)
  IN  IF guid \notin DOMAIN historyContainer \/ Len(historyContainer[guid]) <= messageIndex
      THEN [store |-> store, ret |-> FALSE]
      ELSE [store |-> Stored(store, modelId, guid, splice(historyContainer[guid], messageIndex, 1)),
            ret |-> TRUE]

deleteMessage(store, modelId, guid, messageIndex) ==
  LET historyContainer == getHistoryContainer(store, modelId)
  IN  IF guid \notin DOMAIN historyContainer \/ Len(historyContainer[guid]) <= messageIndex
      THEN [store |-> store, ret |-> FALSE]
      ELSE [store |-> StoredOrDeleted(store, modelId, guid,
                                      splice(historyContainer[guid], messageIndex, 1)),
            ret |-> TRUE]

\* the numbers the routes let through: typeof 'number' and not below 0
Counts == 0..(MaxHistory + 1)

ClearHistoryArgs == [store : HistoryStores, guid : Guids, valueToClear : Counts]
RemoveLastArgs == [store : HistoryStores, modelId : HistoryModels, guid : Guids, clearCount : Counts]
MoveMessageArgs == [store : HistoryStores, modelId : HistoryModels, guid : Guids,
                    oldIndex : 0..MaxHistory, newIndex : 0..MaxHistory]
DeleteMessageArgs == [store : HistoryStores, modelId : HistoryModels, guid : Guids,
                      messageIndex : 0..MaxHistory]

ClearHistory ==
  /\ pure.fn = "clearHistory" /\ ~pure.done
  /\ pure' = Value(clearHistory(pure.arg.store, pure.arg.guid, pure.arg.valueToClear))
  /\ UNCHANGED lifecycle

RemoveLastMessages ==
  /\ pure.fn = "removeLastMessages" /\ ~pure.done
  /\ pure' = Value(removeLastMessages(pure.arg.store, pure.arg.modelId, pure.arg.guid,
                                      pure.arg.clearCount))
  /\ UNCHANGED lifecycle

MoveMessage ==
  /\ pure.fn = "moveMessage" /\ ~pure.done
  /\ pure' = Value(moveMessage(pure.arg.store, pure.arg.modelId, pure.arg.guid,
                               pure.arg.oldIndex, pure.arg.newIndex))
  /\ UNCHANGED lifecycle

DeleteMessage ==
  /\ pure.fn = "deleteMessage" /\ ~pure.done
  /\ pure' = Value(deleteMessage(pure.arg.store, pure.arg.modelId, pure.arg.guid,
                                 pure.arg.messageIndex))
  /\ UNCHANGED lifecycle

\* ---- each function on its own
InitFunctions ==
  /\ chat = NoChat
  /\ jobs = << >>
  /\ nextInternalJobId = 1
  /\ now = 0
  /\ GOOGLE_API_KEY = TRUE
  /\ ANTHROPIC_API_KEY = TRUE
  /\ calls = << >>
  /\ lastReturned = NoCall
  /\ lastResponse = NoResponse
  /\ posts = Zero
  /\ attempts = Zero
  /\ statusGets = Zero
  /\ resultGets = Zero
  /\ terminalWrites = Zero
  /\ \/ \E arg \in FormatGeminiArgs : pure = Call("formatGeminiBatchRequests", arg)
     \/ \E arg \in FormatClaudeArgs : pure = Call("formatClaudeBatchRequests", arg)
     \/ \E arg \in ParseGeminiArgs : pure = Call("parseGeminiInlineResponses", arg)
     \/ \E arg \in ParseGeminiUsageArgs : pure = Call("parseGeminiUsageData", arg)
     \/ \E arg \in ClaudeResultArgs : pure = Call("getClaudeJobResult", arg)
     \/ \E arg \in ParseJsonlArgs : pure = Call("parseJsonlResults", arg)
     \/ \E arg \in BatchPayloadArgs : pure = Call("batchRequestPayload", arg)
     \/ \E arg \in ShownStatusArgs : pure = Call("newStatus", arg)
     \/ \E arg \in ClearHistoryArgs : pure = Call("clearHistory", arg)
     \/ \E arg \in RemoveLastArgs : pure = Call("removeLastMessages", arg)
     \/ \E arg \in MoveMessageArgs : pure = Call("moveMessage", arg)
     \/ \E arg \in DeleteMessageArgs : pure = Call("deleteMessage", arg)

NextFunctions ==
  \/ FormatGemini
  \/ FormatClaude
  \/ ParseGeminiInline
  \/ ParseGeminiUsage
  \/ ClaudeResult
  \/ ParseJsonl
  \/ BuildPayload
  \/ ShowStatus
  \/ ClearHistory
  \/ RemoveLastMessages
  \/ MoveMessage
  \/ DeleteMessage

SpecFunctions == InitFunctions /\ [][NextFunctions]_vars

\* ================================================ claims about the functions
\* the keys are request-1 .. request-n, each once, in some order
IsPermutationOfKeys(keys, n) ==
  /\ Len(keys) = n
  /\ \A k \in 1..n : \E i \in 1..n : keys[i] = <<"request-", ToString(k)>>

\* every block with key request-n shows prompt n
BlocksAligned(blocks, originalPrompts) ==
  \A i \in 1..Len(blocks) : \A n \in 1..Len(originalPrompts) :
    blocks[i].key = <<"request-", ToString(n)>> => blocks[i].prompt = <<originalPrompts[n]>>

\* C16: with the single-chat flag unset and N prompts, when the provider returns the
\* items request-1 .. request-N in any order, every block of the rendered result
\* whose key is request-n shows originalPrompts[n-1] as its prompt, for Gemini inline
\* responses and for Claude result lines.
C16_BlocksShowThePromptOfTheirKey ==
  /\ (/\ pure.fn = "parseGeminiInlineResponses" /\ pure.done
      /\ ~pure.arg.isSingleBatchChat
      /\ Len(pure.arg.originalPrompts) >= 1
      /\ LET items == InlinedResponses(pure.arg.lroInfo)
         IN  IsPermutationOfKeys([i \in 1..Len(items) |-> items[i].metadata],
                                 Len(pure.arg.originalPrompts)))
       => BlocksAligned(pure.out.blocks, pure.arg.originalPrompts)
  /\ (/\ pure.fn = "getClaudeJobResult" /\ pure.done
      /\ ~pure.arg.isSingleBatchChat
      /\ Len(pure.arg.originalPrompts) >= 1
      /\ pure.arg.download.error = Null /\ pure.arg.download.shape = "text"
      /\ LET lines == pure.arg.download.lines
         IN  /\ \A i \in 1..Len(lines) : lines[i].kind = "json"
             /\ IsPermutationOfKeys([i \in 1..Len(lines) |-> lines[i].custom_id],
                                    Len(pure.arg.originalPrompts)))
       => BlocksAligned(pure.out.result, pure.arg.originalPrompts)

\* a line is well formed when it is the text of one JSON object
WellFormedLine(line) == line = <<"A">> \/ line = <<"B">>

\* C17: for a document of M well-formed lines and one malformed line, none of them
\* empty, parseJsonlResults returns M + 1 entries in line order: the parsed value for
\* a well-formed line and an error entry holding the line for the malformed one.
C17_MalformedLineBecomesErrorEntry ==
  (/\ pure.fn = "parseJsonlResults" /\ pure.done
   /\ \A i \in 1..Len(pure.arg.lines) : pure.arg.lines[i] # << >>
   /\ Cardinality({i \in 1..Len(pure.arg.lines) : ~WellFormedLine(pure.arg.lines[i])}) = 1)
    => /\ Len(pure.out) = Len(pure.arg.lines)
       /\ \A i \in 1..Len(pure.arg.lines) :
            /\ pure.out[i].value = pure.arg.lines[i]
            /\ pure.out[i].error = IF WellFormedLine(pure.arg.lines[i]) THEN Null
                                   ELSE "JSON parsing error on result line"

C17_Witness ==
  /\ pure.fn = "parseJsonlResults" /\ pure.done
  /\ pure.arg.lines = <<<<"A">>, <<"A", "x">>, <<"B">>>>
  /\ pure.arg.lastLF
  /\ Len(pure.out) = 3
  /\ pure.out[2].error = "JSON parsing error on result line"
  /\ pure.out[3].value = <<"B">>

\* the sum of the values of a field that are there
RECURSIVE SumPresent(_)
SumPresent(xs) ==
  IF Len(xs) = 0 THEN 0
  ELSE (IF xs[1] < 0 THEN 0 ELSE xs[1]) + SumPresent(Tail(xs))

\* C18: with the single-chat flag unset and K >= 0 items, parseGeminiUsageData returns
\* a usage object whose promptTokenCount, candidatesTokenCount, totalTokenCount and
\* thoughtsTokenCount are each the sum over the items of the values that are there.
C18_GeminiUsageIsSumOfPresent ==
  (pure.fn = "parseGeminiUsageData" /\ pure.done /\ ~pure.arg.isSingleBatchChat) =>
    LET items == InlinedResponses(pure.arg.lroInfo)
    IN  /\ pure.out.text = Null
        /\ \A f \in {"promptTokenCount", "candidatesTokenCount", "totalTokenCount",
                     "thoughtsTokenCount"} :
             pure.out.usageMetadata[f] =
               SumPresent([i \in 1..Len(items) |->
                             IF items[i].response THEN items[i].usageMetadata[f] ELSE Undefined])

\* C19: for a Claude results file of K result lines, each usage field stored as the
\* job's usageData is a number, the sum over the lines of the values that are there,
\* a line without usage counting as 0.
C19_ClaudeUsageIsSumOfPresent ==
  (/\ pure.fn = "getClaudeJobResult" /\ pure.done
   /\ ~pure.arg.isSingleBatchChat
   /\ pure.arg.download.error = Null /\ pure.arg.download.shape = "text"
   /\ \A i \in 1..Len(pure.arg.download.lines) : pure.arg.download.lines[i].kind = "json")
    => /\ ~pure.out.threw
       /\ \A f \in ClaudeUsageFields :
            /\ ~pure.out.usageData[f].null
            /\ pure.out.usageData[f].value =
                 SumPresent([i \in 1..Len(pure.arg.download.lines) |->
                               pure.arg.download.lines[i].usage[f]])

\* C20: for a non-empty list of N prompts, each formatter builds, with the
\* single-chat flag set, one item with key request-1 whose turns are the N prompts in
\* order, each a user turn; with the flag unset, N items, the n-th with key request-n
\* and one turn that carries prompt n.
C20_FormattersBuildOneOrNItems ==
  /\ (pure.fn = "formatGeminiBatchRequests" /\ pure.done /\ Len(pure.arg.rawPrompts) >= 1) =>
       LET prompts == pure.arg.rawPrompts
           items == pure.out.items
       IN  IF pure.arg.isSingleBatchChat
           THEN /\ Len(items) = 1
                /\ items[1].metadata.key = <<"request-", "1">>
                /\ Len(items[1].request.contents) = Len(prompts)
                /\ \A n \in 1..Len(prompts) :
                     /\ items[1].request.contents[n].role = "user"
                     /\ items[1].request.contents[n].parts = <<[text |-> prompts[n]]>>
           ELSE /\ Len(items) = Len(prompts)
                /\ \A n \in 1..Len(prompts) :
                     /\ items[n].metadata.key = <<"request-", ToString(n)>>
                     /\ Len(items[n].request.contents) = 1
                     /\ items[n].request.contents[1].parts = <<[text |-> prompts[n]]>>
  /\ (pure.fn = "formatClaudeBatchRequests" /\ pure.done /\ Len(pure.arg.rawPrompts) >= 1) =>
       LET prompts == pure.arg.rawPrompts
           items == pure.out.items
       IN  IF pure.arg.isSingleBatchChat
           THEN /\ Len(items) = 1
                /\ items[1].custom_id = <<"request-", "1">>
                /\ items[1].params.messages =
                     [n \in 1..Len(prompts) |-> [role |-> "user", content |-> prompts[n]]]
           ELSE /\ Len(items) = Len(prompts)
                /\ \A n \in 1..Len(prompts) :
                     /\ items[n].custom_id = <<"request-", ToString(n)>>
                     /\ items[n].params.messages = <<[role |-> "user", content |-> prompts[n]]>>

C20_Witness ==
  /\ pure.fn = "formatGeminiBatchRequests" /\ pure.done
  /\ ~pure.arg.isSingleBatchChat
  /\ pure.arg.rawPrompts = <<"p1", "p2", "p1">>
  /\ Len(pure.out.items) = 3
  /\ pure.out.items[3].metadata.key = <<"request-", "3">>

\* C21: when a system prompt is given to submitBatchJob, every request item of the
\* payload built for Gemini and for Claude, single-chat or not, carries it.
C21_EveryItemCarriesTheSystemPrompt ==
  (/\ pure.fn = "batchRequestPayload" /\ pure.done
   /\ pure.arg.systemPrompt # Null
   /\ Len(pure.arg.prompts) >= 1)
    => /\ Len(pure.out.items) >= 1
       /\ \A i \in 1..Len(pure.out.items) :
            IF pure.arg.modelId = "gemini"
            THEN pure.out.items[i].request.systemInstruction =
                   [parts |-> <<[text |-> pure.arg.systemPrompt]>>]
            ELSE /\ "system" \in DOMAIN pure.out.items[i].params
                 /\ pure.out.items[i].params.system = pure.arg.systemPrompt

\* ===================================== claims about the store and its records
\* C22: the ids in the store are distinct and each was issued once: the ids issued
\* by the counter are the ones below it, a step adds the ids the counter moved over
\* and takes none away, the record under an id stays the job it was made for, and
\* the entries a submission returns name different jobs; the ids of registered
\* uploads are never ids of the counter.
C22_InternalJobIdsAreUnique ==
  [][/\ Known \cap JobIds = 1..(nextInternalJobId - 1)
     /\ Known \subseteq DOMAIN jobs'
     /\ nextInternalJobId' >= nextInternalJobId
     /\ (DOMAIN jobs' \ Known) \cap JobIds = nextInternalJobId..(nextInternalJobId' - 1)
     /\ (DOMAIN jobs' \ Known) \ JobIds \subseteq OpenAIBatchIds
     /\ \A j \in Known :
          /\ jobs'[j].model = jobs[j].model
          /\ jobs'[j].method = jobs[j].method
          /\ jobs'[j].prompts = jobs[j].prompts
     /\ Started("submit") =>
          /\ \A i, k \in 1..Len(StartedCall.ids) :
               i # k => StartedCall.ids[i] # StartedCall.ids[k]
          /\ Range(StartedCall.ids) = DOMAIN jobs' \ Known
     /\ (lastReturned'.op = "submit" /\ lastReturned'.outcome = "returned") =>
          \A m1, m2 \in DOMAIN lastReturned'.ret :
            /\ lastReturned'.ret[m1].internalJobId \in Range(lastReturned'.ids)
            /\ m1 # m2 => lastReturned'.ret[m1].internalJobId # lastReturned'.ret[m2].internalJobId]_vars

\* two submissions that overlap, and an uploaded batch
C22_Witness ==
  /\ Known = {1, 2} \cup OpenAIBatchIds
  /\ Len(calls) = 2
  /\ calls[1].op = "submit" /\ calls[1].ids = <<1>>
  /\ calls[2].op = "submit" /\ calls[2].ids = <<2>>
  /\ nextInternalJobId = 3

\* the messages of the errors a creation callback throws before it sends a request
SubmitSyncMessages == {"Gemini API key not configured.", "Anthropic API key not configured.",
                       "Model not supported for batch text input."}

\* C23: a submitBatchJob call that passes validation adds one record per element of
\* its models list, under a new id, with that model and the prompts and method of the
\* call, no provider id, and the status PENDING (FAILED with the message when the
\* callback threw before its request, in the same step); a call that throws and every
\* other operation add none; no step takes a record away or puts another job under
\* an id that is in the store.
C23_SubmitAddsOneRecordPerModel ==
  [][/\ Known \subseteq DOMAIN jobs'
     /\ \A j \in Known :
          /\ jobs'[j].model = jobs[j].model
          /\ jobs'[j].method = jobs[j].method
          /\ jobs'[j].prompts = jobs[j].prompts
     /\ IF Started("submit")
        THEN LET args == StartedCall.args
                 ids == StartedCall.ids
             IN  /\ Len(args.models) >= 1
                 /\ Len(ids) = Len(args.models)
                 /\ Cardinality(DOMAIN jobs' \ Known) = Len(args.models)
                 /\ \A i \in 1..Len(ids) :
                      /\ ids[i] \in DOMAIN jobs' \ Known
                      /\ jobs'[ids[i]].model = args.models[i]
                      /\ jobs'[ids[i]].method = args.method
                      /\ jobs'[ids[i]].prompts = args.prompts
                      /\ jobs'[ids[i]].llmJobId = "null"
                      /\ \/ /\ jobs'[ids[i]].status = "PENDING"
                            /\ jobs'[ids[i]].result = << >>
                         \/ /\ jobs'[ids[i]].status = "FAILED"
                            /\ jobs'[ids[i]].result[1] = "Failed to submit job: "
                            /\ jobs'[ids[i]].result[2] \in SubmitSyncMessages
                            /\ posts'[ids[i]] = 0
        ELSE DOMAIN jobs' = Known]_vars

\* a submission that adds a second record while the first job is RUNNING
C23_Witness ==
  /\ Len(calls) >= 2
  /\ calls[Len(calls)].op = "submit"
  /\ Len(calls[Len(calls)].args.models) = 1
  /\ Known = {1, 2}
  /\ jobs[1].status = "RUNNING"
  /\ jobs[2].status = "PENDING"
  /\ jobs[2].prompts = <<"a", "b">>

\* the label a Claude block gives the result of its line
ClaudeLabel(type) ==
  IF type = "succeeded" THEN "Response: "
  ELSE IF type = "errored" THEN "Error: " ELSE "Expired: "

\* C24: when an item of the payload of a completed batch carries an error (an errored
\* or expired result), the rendered result has one block per item, in order, the
\* block of that item shows the error, the blocks of the others show their response,
\* and the job is not made FAILED: for Gemini inline responses, and for a Claude
\* results file (one line, which arrives parsed, or several, which arrive as text).
C24_ItemErrorStaysInItsBlock ==
  /\ (/\ pure.fn = "parseGeminiInlineResponses" /\ pure.done
      /\ \E i \in 1..Len(InlinedResponses(pure.arg.lroInfo)) :
           InlinedResponses(pure.arg.lroInfo)[i].error # "null")
       => LET items == InlinedResponses(pure.arg.lroInfo)
          IN  /\ Len(pure.out.blocks) = Len(items)
              /\ \A i \in 1..Len(items) :
                   /\ pure.out.blocks[i].error = items[i].error
                   /\ items[i].response = "text" => pure.out.blocks[i].response = "text"
  /\ (/\ pure.fn = "getClaudeJobResult" /\ pure.done
      /\ pure.arg.download.error = "null"
      /\ Len(pure.arg.download.lines) >= 1
      /\ \A i \in 1..Len(pure.arg.download.lines) : pure.arg.download.lines[i].kind = "json"
      /\ \E i \in 1..Len(pure.arg.download.lines) :
           pure.arg.download.lines[i].type \in {"errored", "expired"}
      /\ (pure.arg.download.shape = "object") <=> (Len(pure.arg.download.lines) = 1)
      /\ pure.arg.isSingleBatchChat => Len(pure.arg.download.lines) = 1)
       => LET lines == pure.arg.download.lines
          IN  /\ ~pure.out.threw
              /\ Len(pure.out.result) = Len(lines)
              /\ \A i \in 1..Len(lines) :
                   /\ pure.out.result[i].key = lines[i].custom_id
                   /\ pure.out.result[i].body = ClaudeLabel(lines[i].type)

C26_StatusAndResultNeverReject ==
  (/\ lastReturned.outcome = "threw"
   /\ lastReturned.op \in {"status", "result", "uploadStatus", "uploadResult"})
    => lastReturned.message = "No job IDs provided."

\* C27: a step of a call writes only records of that call: the step that starts a
\* getBatchJobStatus or getBatchJobResult call leaves every job outside its id list
\* as it is, the step that starts a submission leaves every job of the store as it
\* is, the step that delivers a provider answer changes at most the job the answer is
\* for, which is one of the ids of its call, and a call that throws writes nothing.
C27_CallsWriteOnlyTheirOwnJobs ==
  [][/\ Len(calls') = Len(calls) + 1 =>
          /\ \A j \in Known \ Range(StartedCall.ids) : jobs'[j] = jobs[j]
          /\ StartedCall.op = "submit" => Range(StartedCall.ids) \cap Known = {}
     /\ lastResponse'.call # 0 =>
          /\ lastResponse'.job \in Range(calls[lastResponse'.call].ids)
          /\ \A k \in Known \ {lastResponse'.job} : jobs'[k] = jobs[k]
          /\ DOMAIN jobs' = Known
     /\ lastReturned'.outcome = "threw" => jobs' = jobs]_vars

\* the status answer for job 1 arrived while the request of job 2, of the same call,
\* was still out, and job 2 had been made RUNNING by an earlier call
C27_Witness ==
  /\ lastResponse.call # 0
  /\ lastResponse.job = 1
  /\ calls[lastResponse.call].op = "status"
  /\ 2 \in DOMAIN calls[lastResponse.call].pending
  /\ jobs[1].status = "COMPLETED"
  /\ jobs[2].status = "PENDING"
  /\ jobs[2].llmJobId # "null"

\* C28: in every reachable state the status of every job of the store is one of
\* PENDING, RUNNING, COMPLETED and FAILED.
C28_StatusIsOneOfFour ==
  \A j \in Known : jobs[j].status \in {"PENDING", "RUNNING", "COMPLETED", "FAILED"}

\* a Gemini operation that answered done without error made job 1 COMPLETED, and the
\* Claude job 2, COMPLETED without a results URL, was read again by getBatchJobResult
\* while its batch had not ended
C28_Witness ==
  /\ DOMAIN jobs = {1, 2}
  /\ jobs[1].model = "gemini"
  /\ jobs[1].status = "COMPLETED"
  /\ jobs[1].successData = "lroInfo"
  /\ jobs[2].model = "claude"
  /\ jobs[2].status = "PENDING"
  /\ lastResponse.call # 0
  /\ lastResponse.job = 2
  /\ resultGets[2] = 1

\* the spellings a word has when letter case is ignored
Spellings(word) ==
  CASE word = "completed" -> {"completed", "COMPLETED"}
    [] word = "in_progress" -> {"in_progress", "In_Progress"}
    [] OTHER -> {word}

Contains(status, word) == \E i \in DOMAIN status : status[i] \in Spellings(word)

C30_NoRequestWithoutProviderJobId ==
  [][/\ \A j \in Known :
          (statusGets'[j] > statusGets[j] \/ resultGets'[j] > resultGets[j]) =>
             /\ jobs[j].llmJobId # "null"
             /\ jobs[j].model \in {"gemini", "claude"}
     /\ \A j \in DOMAIN jobs' :
          jobs'[j].status \in {"RUNNING", "COMPLETED"} => jobs'[j].llmJobId # "null"]_vars

\* job 1 was polled while its creation request was still out and failed without a
\* request; the creation was then accepted; job 2 was polled with its id and is RUNNING
C30_Witness ==
  /\ DOMAIN jobs = {1, 2}
  /\ jobs[1].status = "FAILED"
  /\ jobs[1].result = <<"Failed to check status: ", "Gemini job has no LLM job ID.">>
  /\ jobs[1].llmJobId # "null"
  /\ statusGets[1] = 0
  /\ jobs[2].status = "RUNNING"
  /\ statusGets[2] = 1

\* C31: a getBatchJobResult call on a COMPLETED job that has its payload (successData),
\* when no request of the call fails, leaves the job COMPLETED with a result and usage
\* data that depend on the isSingleBatchChat flag and the payload only, so that a
\* second call with the same flag and the same payload returns what the first one
\* returned; the entry the call returns shows the job's status, result and usage data.
C31_RepeatedResultIsTheSame ==
  [][/\ Started("result") =>
          \A j \in Range(StartedCall.ids) \cap Known :
            (/\ jobs[j].status = "COMPLETED"
             /\ jobs[j].model = "gemini"
             /\ jobs[j].successData # "null") =>
               /\ jobs'[j].status = "COMPLETED"
               /\ jobs'[j].result = <<"--- Request Key: ",
                                      IF StartedCall.args.isSingleBatchChat THEN "single" ELSE "each">>
               /\ jobs'[j].usageData = "usageMetadata"
               /\ StartedCall.ret[j].status = "COMPLETED"
               /\ StartedCall.ret[j].result = jobs'[j].result
               /\ StartedCall.ret[j].usageData = jobs'[j].usageData
     /\ \A c \in DOMAIN calls : \A j \in Known :
          (/\ calls[c] # Done
           /\ calls[c].op = "result"
           /\ lastResponse'.call = c
           /\ lastResponse'.job = j
           /\ j \in DOMAIN calls[c].pending
           /\ calls[c].pending[j] = "download"
           /\ lastResponse'.response.error = "null"
           /\ jobs[j].status = "COMPLETED") =>
             /\ jobs'[j].status = "COMPLETED"
             /\ jobs'[j].result = <<"--- Request Key: ",
                                    IF calls[c].isSingleBatchChat THEN "single" ELSE "each">>
             /\ jobs'[j].usageData = "usage"
             /\ CallAfter(c).ret[j].status = "COMPLETED"
             /\ CallAfter(c).ret[j].result = jobs'[j].result
             /\ CallAfter(c).ret[j].usageData = jobs'[j].usageData]_vars

\* C32: a getBatchJobResult call of the file-upload mode for OpenAI sends its download
\* request only when the store has a record under the batch id and that record holds
\* an output file id; the record of a registered batch gets its output file id from
\* the answer of a getBatchJobStatus call of the file-upload mode for that batch id and
\* from nothing else; a call that finds no record or no output file id throws before
\* any request, and the only errors thrown before a request are the three of lines
\* 448-483.
C32_DownloadNeedsStoredOutputFile ==
  [][/\ (/\ Len(calls') = Len(calls) + 1
         /\ calls'[Len(calls')].op = "uploadResult"
         /\ calls'[Len(calls')].modelId = "openai") =>
           LET id == calls'[Len(calls')].ids[1]
           IN  /\ id \in Known
               /\ jobs[id].successData # "null"
               /\ jobs' = jobs
     /\ \A id \in Known \cap OpenAIBatchIds :
          jobs'[id].successData # jobs[id].successData =>
            /\ lastResponse'.call # 0
            /\ lastResponse'.job = id
            /\ calls[lastResponse'.call].op = "uploadStatus"
            /\ calls[lastResponse'.call].modelId = "openai"
            /\ lastResponse'.response.error = "null"
            /\ jobs'[id].successData = lastResponse'.response.data.output_file_id
     /\ \A id \in OpenAIBatchIds \ Known :
          id \in DOMAIN jobs' => jobs'[id].successData = "null"
     /\ (/\ lastReturned'.outcome = "threw"
         /\ lastReturned'.op = "uploadResult"
         /\ lastResponse'.call = 0) =>
           /\ calls' = calls
           /\ lastReturned'.message \in
                {"No job IDs provided.", "Job not found or output file ID missing.",
                 "Model not supported for file upload batch result retrieval."}]_vars

\* a status call stored the output file id of the registered batch, and the result
\* call made after it downloaded the file and returned
C32_Witness ==
  /\ OpenAIBatchIds \subseteq DOMAIN jobs
  /\ \A id \in OpenAIBatchIds : jobs[id].successData = "file-abc"
  /\ lastReturned.op = "uploadResult"
  /\ lastReturned.outcome = "returned"
  /\ lastReturned.ids \in {<<id>> : id \in OpenAIBatchIds}

WellFormedLines(lines) == SelectSeq(lines, LAMBDA l : l.kind = "json")

\* C34: for a Claude results file read as text in non-single-chat mode that has a line
\* which is not JSON, the parse does not throw (the job stays COMPLETED), the result has
\* one block for every well-formed line, in order, with the line's key and its kind of
\* body, and every usage field that all well-formed lines carry is stored as the sum
\* over the well-formed lines.
C34_MalformedLineIsSkipped ==
  (/\ pure.fn = "getClaudeJobResult" /\ pure.done
   /\ ~pure.arg.isSingleBatchChat
   /\ pure.arg.download.error = "null" /\ pure.arg.download.shape = "text"
   /\ \E i \in 1..Len(pure.arg.download.lines) : pure.arg.download.lines[i].kind = "garbage")
    => LET good == WellFormedLines(pure.arg.download.lines)
       IN  /\ ~pure.out.threw
           /\ Len(pure.out.result) = Len(good)
           /\ \A i \in 1..Len(good) :
                /\ pure.out.result[i].key = good[i].custom_id
                /\ pure.out.result[i].body =
                     (CASE good[i].type = "succeeded" -> "Response: "
                        [] good[i].type = "errored" -> "Error: "
                        [] good[i].type = "expired" -> "Expired: ")
           /\ \A f \in ClaudeUsageFields :
                (\A i \in 1..Len(good) : good[i].usage[f] >= 0) =>
                  /\ ~pure.out.usageData[f].null
                  /\ pure.out.usageData[f].value =
                       SumPresent([i \in 1..Len(good) |-> good[i].usage[f]])

\* a file of a line that is not JSON and a succeeded line after it gave the one block
\* of the succeeded line and its input tokens
C34_Witness ==
  /\ pure.fn = "getClaudeJobResult" /\ pure.done
  /\ ~pure.arg.isSingleBatchChat
  /\ pure.arg.download.error = "null" /\ pure.arg.download.shape = "text"
  /\ Len(pure.arg.download.lines) = 2
  /\ pure.arg.download.lines[1].kind = "garbage"
  /\ pure.arg.download.lines[2].type = "succeeded"
  /\ ~pure.out.threw
  /\ Len(pure.out.result) = 1
  /\ pure.out.result[1].key = pure.arg.download.lines[2].custom_id
  /\ pure.out.usageData["input_tokens"].value = pure.arg.download.lines[2].usage["input_tokens"]

\* ============================================ claims about the history store
\* the messages a session of a model holds; a session without an entry holds none
HistoryOf(store, modelId, guid) ==
  IF guid \in DOMAIN store[modelId] THEN store[modelId][guid] ELSE << >>

\* every history but the one of modelId and guid is as it was, entry for entry
OthersUntouched(before, after, modelId, guid) ==
  \A m \in HistoryModels :
    /\ DOMAIN after[m] \ {guid} = DOMAIN before[m] \ {guid}
    /\ (m # modelId => DOMAIN after[m] = DOMAIN before[m])
    /\ \A g \in DOMAIN before[m] : (m # modelId \/ g # guid) => after[m][g] = before[m][g]

\* C36: removeLastMessages(modelId, guid, clearCount) with clearCount >= 0, on a
\* history that is there and has at least clearCount messages, removes the last
\* clearCount messages, leaves the ones before them and returns true; otherwise it
\* returns false and changes nothing.
C36_RemoveLastRemovesTheLast ==
  (pure.fn = "removeLastMessages" /\ pure.done) =>
    LET before == pure.arg.store
        m == pure.arg.modelId
        g == pure.arg.guid
        n == pure.arg.clearCount
    IN  IF g \in DOMAIN before[m] /\ Len(before[m][g]) >= n
        THEN /\ pure.out.ret = TRUE
             /\ HistoryOf(pure.out.store, m, g) = SubSeq(before[m][g], 1, Len(before[m][g]) - n)
             /\ OthersUntouched(before, pure.out.store, m, g)
        ELSE /\ pure.out.ret = FALSE
             /\ pure.out.store = before

\* the array without the element at position i (1-based)
AllBut(array, i) == SubSeq(array, 1, i - 1) \o SubSeq(array, i + 1, Len(array))

\* how often a message occurs in an array
Occurrences(array, message) == Cardinality({i \in DOMAIN array : array[i] = message})

\* C37: moveMessage(modelId, guid, oldIndex, newIndex) with both indices inside
\* the history returns true, keeps the length and the multiset of messages, puts
\* the moved message at newIndex and keeps the order of all other messages; with
\* no history or an index out of range it returns false and changes nothing.
C37_MoveKeepsTheOthersInOrder ==
  (pure.fn = "moveMessage" /\ pure.done) =>
    LET before == pure.arg.store
        m == pure.arg.modelId
        g == pure.arg.guid
        old == pure.arg.oldIndex + 1
        new == pure.arg.newIndex + 1
    IN  IF g \in DOMAIN before[m] /\ old <= Len(before[m][g]) /\ new <= Len(before[m][g])
        THEN /\ pure.out.ret = TRUE
             /\ g \in DOMAIN pure.out.store[m]
             /\ LET h == before[m][g]
                    after == pure.out.store[m][g]
                IN  /\ Len(after) = Len(h)
                    /\ \A x \in HistoryMessages : Occurrences(after, x) = Occurrences(h, x)
                    /\ after[new] = h[old]
                    /\ AllBut(after, new) = AllBut(h, old)
        ELSE /\ pure.out.ret = FALSE
             /\ pure.out.store = before

\* the first message of three was moved to the end, past two others that differ
C37_Witness ==
  /\ pure.fn = "moveMessage" /\ pure.done
  /\ pure.arg.modelId = "gemini" /\ pure.arg.guid = "g1"
  /\ pure.arg.oldIndex = 0 /\ pure.arg.newIndex = 2
  /\ pure.arg.store["gemini"] = [g \in {"g1"} |-> <<"m1", "m2", "m1">>]
  /\ pure.out.ret = TRUE
  /\ pure.out.store["gemini"]["g1"] = <<"m2", "m1", "m1">>

\* C38: deleteMessage(modelId, guid, messageIndex) with an index inside the
\* history removes that message only, keeps the others in order, removes the
\* session entry when the history becomes empty and returns true; with no history
\* or an index out of range it returns false and changes nothing; no history of
\* another model or session is changed.
C38_DeleteRemovesOneMessage ==
  (pure.fn = "deleteMessage" /\ pure.done) =>
    LET before == pure.arg.store
        m == pure.arg.modelId
        g == pure.arg.guid
        i == pure.arg.messageIndex + 1
    IN  /\ OthersUntouched(before, pure.out.store, m, g)
        /\ IF g \in DOMAIN before[m] /\ i <= Len(before[m][g])
           THEN /\ pure.out.ret = TRUE
                /\ HistoryOf(pure.out.store, m, g) = AllBut(before[m][g], i)
                /\ (g \in DOMAIN pure.out.store[m]) = (Len(before[m][g]) > 1)
           ELSE /\ pure.out.ret = FALSE
                /\ pure.out.store = before

\* the only message of a session was deleted, beside another session of the same
\* model and a session of another model
C38_Witness ==
  /\ pure.fn = "deleteMessage" /\ pure.done
  /\ pure.arg.modelId = "gemini" /\ pure.arg.guid = "g1" /\ pure.arg.messageIndex = 0
  /\ pure.arg.store["gemini"] = [g \in {"g1", "g2"} |-> IF g = "g1" THEN <<"m1">> ELSE <<"m2">>]
  /\ DOMAIN pure.arg.store["gpt"] = {"g1"}
  /\ pure.out.ret = TRUE
  /\ DOMAIN pure.out.store["gemini"] = {"g2"}

\* C39: clearHistory(guid, n) removes e messages from the front of the history
\* each model keeps for the session, e being n, or n + 1 when n is odd, whenever
\* that history holds at least e messages; the entry of a history that became
\* empty is removed, and the histories of other sessions stay as they were.
C39_ClearRemovesTheFront ==
  (pure.fn = "clearHistory" /\ pure.done) =>
    LET before == pure.arg.store
        g == pure.arg.guid
        n == pure.arg.valueToClear
        e == IF n % 2 = 1 THEN n + 1 ELSE n
    IN  \A m \in HistoryModels :
          /\ (g \in DOMAIN before[m] /\ Len(before[m][g]) >= e) =>
               HistoryOf(pure.out.store, m, g) = SubSeq(before[m][g], e + 1, Len(before[m][g]))
          /\ (g \in DOMAIN pure.out.store[m]) => Len(pure.out.store[m][g]) > 0
          /\ DOMAIN pure.out.store[m] \ {g} = DOMAIN before[m] \ {g}
          /\ \A other \in DOMAIN before[m] \ {g} : pure.out.store[m][other] = before[m][other]

\* ====================== the chat route (routes/chatRoutes.js, services/llmService.js)
MaxRequests == 2

\* two of the five identifiers; positions count from 1 here and from 0 in the code
MODEL_IDENTIFIERS == <<"gemini", "gpt">>

\* the ids that have a configuration
MODELS_CONFIG == {"gemini", "gpt"}

\* everything but the chat route
batch == <<jobs, nextInternalJobId, now, GOOGLE_API_KEY, ANTHROPIC_API_KEY, calls,
           lastReturned, lastResponse, posts, attempts, statusGets, resultGets, terminalWrites,
           pure>>

\* an enabledList may name a position past the identifiers
ModelIndices == 1..(Len(MODEL_IDENTIFIERS) + 1)
EnabledLists == [ModelIndices -> BOOLEAN]
CheckedLists == [ModelIndices -> BOOLEAN]

ModelAt(index) ==
  IF index \in DOMAIN MODEL_IDENTIFIERS THEN MODEL_IDENTIFIERS[index] ELSE "undefined"

\* the message of a request and the text a provider answers it with: each request
\* brings its own, so that the messages of two requests can be told apart
Input(r) == <<"q", r>>
Content(r) == <<"a", r>>

initialHistory == << >>
formatUserMessage(input) == <<"user", input>>
formatAssistantMessage(content) == <<"assistant", content>>

\* the provider request resolves with a text, resolves without one, or fails
ProviderOutcomes == {"content", "empty", "failed"}

\* res.write of one event; both writes of sendSseEvent happen in one go
sendSseEvent(c, r, event, model) ==
  [c EXCEPT !.streams[r].events = Append(@, [event |-> event, model |-> model])]

\* Array.prototype.push and pop on historyContainer[guid], the array the call holds
push(store, modelId, guid, message) ==
  Stored(store, modelId, guid, Append(store[modelId][guid], message))

pop(store, modelId, guid) ==
  LET array == store[modelId][guid]
  IN  IF Len(array) = 0 THEN store
      ELSE Stored(store, modelId, guid, SubSeq(array, 1, Len(array) - 1))

\* callLLMAPI up to its await: the session array is created when it is missing and
\* the user message is pushed; outside chat mode the array is a fresh local one
callLLMAPI(c, r, modelId, input, isChat, guid) ==
  LET created == IF isChat /\ guid \notin DOMAIN c.historyContainers[modelId]
                 THEN Stored(c.historyContainers, modelId, guid, initialHistory)
                 ELSE c.historyContainers
      pushed == IF isChat THEN push(created, modelId, guid, formatUserMessage(input))
                ELSE created
  IN  [c EXCEPT !.historyContainers = pushed,
                !.llmCalls = Append(@, [request |-> r, modelId |-> modelId, guid |-> guid,
                                        isChat |-> isChat, input |-> input, awaiting |-> TRUE])]

\* callLLMAPI from the answer of the provider on, and the event callModelAndSendSSE
\* writes for what it returns
callModelAndSendSSE(c, k, outcome) ==
  LET call == c.llmCalls[k]
      store == c.historyContainers
      after == IF ~call.isChat THEN store
               ELSE IF outcome = "content"
                    THEN push(store, call.modelId, call.guid,
                              formatAssistantMessage(Content(call.request)))
               ELSE IF outcome = "failed" THEN pop(store, call.modelId, call.guid)
               ELSE store
      settled == [c EXCEPT !.historyContainers = after, !.llmCalls[k].awaiting = FALSE]
  IN  sendSseEvent(settled, call.request,
                   IF outcome = "failed" THEN "model_error" ELSE "model_result", call.modelId)

\* Promise.all(processingPromises) has resolved when only one promise is settled
PromiseAll_Race(c, r) ==
  \E k \in DOMAIN c.llmCalls : c.llmCalls[k].request = r /\ ~c.llmCalls[k].awaiting

\* Promise.all(processingPromises) has resolved: no call of the request is awaited
PromiseAll(c, r) ==
  \A k \in DOMAIN c.llmCalls : c.llmCalls[k].request = r => ~c.llmCalls[k].awaiting

\* .then writes all_complete and .finally ends the stream, once
AllComplete(c, r) ==
  IF PromiseAll(c, r) /\ ~c.streams[r].ended
  THEN [sendSseEvent(c, r, "all_complete", "none") EXCEPT !.streams[r].ended = TRUE]
  ELSE c

\* the for loop of the route over the enabled positions, in order
RECURSIVE SubmitLoop(_, _, _, _)
SubmitLoop(c, r, checkedList, modelIndex) ==
  IF modelIndex \notin ModelIndices THEN c
  ELSE IF ~c.requests[r].enabledList[modelIndex]
       THEN SubmitLoop(c, r, checkedList, modelIndex + 1)
  ELSE LET modelId == ModelAt(modelIndex)
       IN  IF modelId \notin MODELS_CONFIG
           THEN SubmitLoop(sendSseEvent(c, r, "model_skipped", modelId),
                           r, checkedList, modelIndex + 1)
           ELSE SubmitLoop(callLLMAPI(c, r, modelId, Input(r), checkedList[modelIndex],
                                      c.requests[r].guid),
                           r, checkedList, modelIndex + 1)

\* the branch of a request that enables no model
RECURSIVE SkipAll(_, _, _)
SkipAll(c, r, modelIndex) ==
  IF modelIndex \notin DOMAIN MODEL_IDENTIFIERS THEN c
  ELSE SkipAll(sendSseEvent(c, r, "model_skipped", MODEL_IDENTIFIERS[modelIndex]),
               r, modelIndex + 1)

\* POST /api/submit up to the end of the handler
ChatSubmit ==
  /\ Len(chat.requests) < MaxRequests
  /\ \E enabledList \in EnabledLists, checkedList \in CheckedLists, guid \in Guids :
       LET r == Len(chat.requests) + 1
           opened == [chat EXCEPT
                        !.requests = Append(@, [enabledList |-> enabledList, guid |-> guid]),
                        !.streams = Append(@, [events |-> << >>, ended |-> FALSE])]
       IN  /\ \A i \in ModelIndices : checkedList[i] => enabledList[i] /\ ModelAt(i) \in MODELS_CONFIG
           /\ chat' = IF \A i \in ModelIndices : ~enabledList[i]
                      THEN [sendSseEvent(SkipAll(opened, r, 1), r, "all_complete", "none")
                              EXCEPT !.streams[r].ended = TRUE]
                      ELSE AllComplete(SubmitLoop(opened, r, checkedList, 1), r)
  /\ UNCHANGED batch

\* the provider answers one model call, or the request fails
LLMResponse ==
  /\ \E k \in DOMAIN chat.llmCalls, outcome \in ProviderOutcomes :
       /\ chat.llmCalls[k].awaiting
       /\ chat' = AllComplete(callModelAndSendSSE(chat, k, outcome), chat.llmCalls[k].request)
  /\ UNCHANGED batch

NextChat == ChatSubmit \/ LLMResponse

SpecChat == Init /\ [][NextChat]_vars

\* ============================================ claims about the chat route
\* the array without every occurrence of a message
Removed(array, message) == SelectSeq(array, LAMBDA x : x # message)

\* call k is a chat-mode call whose provider request fails in this step
FailsNow(k) ==
  /\ chat.llmCalls[k].awaiting
  /\ chat.llmCalls[k].isChat
  /\ ~chat'.llmCalls[k].awaiting
  /\ LET r == chat.llmCalls[k].request
         n == Len(chat.streams[r].events)
     IN  /\ Len(chat'.streams[r].events) > n
         /\ chat'.streams[r].events[n + 1] =
              [event |-> "model_error", model |-> chat.llmCalls[k].modelId]

\* C35: when the provider request of a chat-mode callLLMAPI call fails, the
\* history of its model and session is afterwards what it would be without the
\* call: the user message of that call, and no other message, is gone; also when
\* another call for the same model and session is under way.
C35_FailedCallLeavesNoTrace ==
  [][\A k \in DOMAIN chat.llmCalls :
       FailsNow(k) =>
         LET m == chat.llmCalls[k].modelId
             g == chat.llmCalls[k].guid
         IN  /\ g \in DOMAIN chat'.historyContainers[m]
             /\ chat'.historyContainers[m][g] =
                  Removed(chat.historyContainers[m][g],
                          <<"user", chat.llmCalls[k].input>>)]_vars

\* the three kinds of event a model gets
ModelEvents == {"model_result", "model_error", "model_skipped"}

\* how many events of those kinds a stream holds for a model
EventsOf(events, model) ==
  Cardinality({i \in DOMAIN events : events[i].event \in ModelEvents /\ events[i].model = model})

\* C40: for a /api/submit request that enables at least one model, every enabled
\* model gets one model_result, model_error or model_skipped event, never two;
\* all_complete is written once, after all of those events and as the last event;
\* the stream is ended with it, and it is written as soon as the last model call
\* has finished or failed, in whatever order they do.
C40_OneEventPerModelThenAllComplete ==
  \A r \in DOMAIN chat.requests :
    LET enabledModels == {ModelAt(i) : i \in {i \in DOMAIN chat.requests[r].enabledList :
                                                  chat.requests[r].enabledList[i]}}
        events == chat.streams[r].events
        completes == {i \in DOMAIN events : events[i].event = "all_complete"}
        awaited == {k \in DOMAIN chat.llmCalls :
                      chat.llmCalls[k].request = r /\ chat.llmCalls[k].awaiting}
    IN  enabledModels # {} =>
          /\ \A i \in DOMAIN events :
               events[i].event \in ModelEvents \cup {"all_complete"}
          /\ \A i \in DOMAIN events :
               events[i].event \in ModelEvents => events[i].model \in enabledModels
          /\ \A model \in enabledModels : EventsOf(events, model) <= 1
          /\ Cardinality(completes) <= 1
          /\ \A i \in completes :
               /\ i = Len(events)
               /\ \A model \in enabledModels : EventsOf(events, model) = 1
          /\ chat.streams[r].ended = (completes # {})
          /\ (completes # {}) = (awaited = {})

\* a request for both models and a position without configuration: the second
\* model failed first, the first answered after it, and the stream is ended
C40_Witness ==
  /\ Len(chat.requests) >= 1
  /\ chat.requests[1].enabledList = [i \in 1..3 |-> TRUE]
  /\ chat.streams[1].ended
  /\ chat.streams[1].events =
       << [event |-> "model_skipped", model |-> "undefined"],
          [event |-> "model_error", model |-> "gpt"],
          [event |-> "model_result", model |-> "gemini"],
          [event |-> "all_complete", model |-> "none"] >>
====
